---- MODULE Spec2Model ----
(***************************************************************************)
(* BugMark: the hierarchical record store (RecordItem / RecordProp of      *)
(* src/src/record.ts), the tree provider and the event handlers wired in   *)
(* activate() (src/unnamed/part_002).  Objects live in a heap keyed by     *)
(* object identity, so that a RecordItem referenced from two places, or    *)
(* from itself, is one object, as in the program.  The reconciliation of  *)
(* a fact (RecordProp.fixLineNumber: diff translation, then fuzzy search)  *)
(* is modelled on its own inputs.                                          *)
(***************************************************************************)
EXTENDS Integers, Sequences, FiniteSets, TLC

(* ------------------------------ bounds --------------------------------- *)
\* RecordItem objects alive at once (the root included).
MaxNodes == 4
\* Renames carried through in one session.
MaxRenames == 1
\* Segments of a path typed into the input box ("a/b/c" has three).
MaxPathLen == 3
\* SourceBreakpoints the debugger holds at one location.
MaxBpPerLoc == 2
\* Breakpoint-change notifications waiting for delivery.
MaxPending == 1
\* Lines of the document a fact is reconciled against.
MaxDocLines == 3
\* The configured bugmark.searchRadius.
MaxRadius == 3
\* Rows in the body of one hunk.
MaxRows == 3
\* The old-file line the first hunk starts at (1-based, as git writes it).
MaxStartA == 2
\* Unchanged lines between the end of one hunk and the start of the next.
MaxGap == 1
\* The stored line number of a fact carried across a diff.
MaxLineno == 9
\* Reconciliations of one fact started and not yet completed.
MaxInFlight == 2
\* Characters of a line of a document under edit.
MaxLineLen == 2
\* Changes in the contentChanges of one document-change event.
MaxChanges == 1
\* Changes of the documents in one session.
MaxEdits == 2

(* ------------------------------ inputs --------------------------------- *)
\* Path segments a user types, in localeCompare order.  The three names are
\* ordinary labels; they are also the keys RecordProp.isProp looks for.
LabelOrder == <<"content", "file", "lineno">>
Labels == {LabelOrder[i] : i \in 1..Len(LabelOrder)}
\* The keys Object.entries gives the elements of an array; digits sort before
\* letters.
IndexKeys == <<"0", "1">>
LabelRank(l) ==
    IF l \in Labels THEN CHOOSE i \in 1..Len(LabelOrder) : LabelOrder[i] = l
    ELSE 0

\* Typed paths: 1..MaxPathLen segments of the first two labels.
RECURSIVE SeqsUpTo(_, _)
SeqsUpTo(S, n) ==
    IF n = 0 THEN {<<>>}
    ELSE LET shorter == SeqsUpTo(S, n - 1)
         IN  shorter \cup {Append(p, x) : p \in {q \in shorter : Len(q) = n - 1}, x \in S}
TypedPaths == SeqsUpTo({LabelOrder[1], LabelOrder[2]}, MaxPathLen) \ {<<>>}
\* A bookmark at the top level and a bookmark in a folder.
FolderPaths == {<<LabelOrder[1]>>, <<LabelOrder[2], LabelOrder[1]>>}
\* The typed paths, and a top-level bookmark of each of the three names.
AllPaths == TypedPaths \cup {<<l>> : l \in Labels}

\* Source locations (file, 0-indexed line) a breakpoint or a cursor can be at.
Locs == {<<"f1", 0>>, <<"f2", 0>>}

(* --------------------------- JSON values ------------------------------- *)
\* JavaScript values are dynamically typed: a value carries its type tag.
\* The tag field sorts before the payload field, so two values of different
\* types compare unequal on the tag alone.
JStr(s) == [jt |-> "s", jv |-> s]
JNum(n) == [jt |-> "n", jv |-> n]
JUndef == [jt |-> "u", jv |-> 0]
JNull == [jt |-> "z", jv |-> 0]
\* An array: its elements in order.
JArr(vs) == [jt |-> "a", jv |-> vs]
\* An object: its own enumerable properties in insertion order.
JObj(es) == [jt |-> "o", jv |-> es]
Entry(key, val) == [k |-> key, v |-> val]

\* Object.entries(j) of an object or an array.
Entries(j) ==
    IF j.jt = "a" THEN [i \in 1..Len(j.jv) |-> Entry(IndexKeys[i], j.jv[i])]
    ELSE j.jv
\* j instanceof Object
InstanceOfObject(j) == j.jt \in {"o", "a"}

HasKey(j, key) == \E i \in 1..Len(j.jv) : j.jv[i].k = key
Get(j, key) ==
    IF HasKey(j, key)
    THEN j.jv[CHOOSE i \in 1..Len(j.jv) : j.jv[i].k = key].v
    ELSE JUndef

\* Object.fromEntries: a repeated key keeps its first position and takes the
\* last value.
RECURSIVE FromEntriesFrom(_, _, _)
FromEntriesFrom(es, i, acc) ==
    IF i > Len(es) THEN acc
    ELSE LET e == es[i]
             hit == {n \in 1..Len(acc) : acc[n].k = e.k}
             nxt == IF hit = {} THEN Append(acc, e)
                    ELSE [n \in 1..Len(acc) |-> IF n \in hit THEN e ELSE acc[n]]
         IN  FromEntriesFrom(es, i + 1, nxt)
FromEntries(es) == JObj(FromEntriesFrom(es, 1, <<>>))

\* JSON.stringify followed by JSON.parse: properties whose value is
\* undefined are not written; strings, numbers and nesting are kept.
RECURSIVE StringifyParse(_)
StringifyParse(j) ==
    IF j.jt # "o" THEN j
    ELSE LET keep == SelectSeq(j.jv, LAMBDA e : e.v.jt # "u")
         IN  JObj([i \in 1..Len(keep) |-> Entry(keep[i].k, StringifyParse(keep[i].v))])

(* ---------------------------- RecordProp ------------------------------- *)
RecordProp(file, lineno, content, githash) ==
    [file |-> file, lineno |-> lineno, content |-> content, githash |-> githash]

\* RecordProp.fromCursor: the cursor's file, line and line text; the HEAD
\* hash when the file is in a repository ("f1" is, "f2" is not).
LineText(loc) == IF loc[1] = "f1" THEN <<"a">> ELSE <<"a", "b">>
HeadHash(file) == IF file = "f1" THEN JStr("h1") ELSE JUndef
FromCursor(loc) ==
    RecordProp(JStr(loc[1]), JNum(loc[2]), JStr(LineText(loc)), HeadHash(loc[1]))

\* RecordProp.serialize returns the object itself: four own properties.
PropSerialize(p) ==
    JObj(<<Entry("file", p.file), Entry("lineno", p.lineno),
           Entry("content", p.content), Entry("githash", p.githash)>>)

\* RecordProp.isProp: Object.keys of a number, a boolean, a string or an
\* array holds none of the required keys.
IsProp(json) ==
    json.jt = "o" /\ \A key \in {"file", "lineno", "content"} : HasKey(json, key)

PropDeserialize(json) ==
    RecordProp(Get(json, "file"), Get(json, "lineno"),
               Get(json, "content"), Get(json, "githash"))

\* decodePath with bugmark.relative off: Uri.file(pathstr).path.  A value
\* that is not a string names no document.
DecodePath(file) == IF file.jt = "s" THEN file.jv ELSE "/[object Object]"

\* bps is the debugger's breakpoint array, kept as a count per location.
MatchBreakpoint(p, loc) == DecodePath(p.file) = loc[1] /\ p.lineno = JNum(loc[2])
MatchSome(p, bps) == \E loc \in Locs : bps[loc] > 0 /\ MatchBreakpoint(p, loc)

(* ----------------------------- the heap -------------------------------- *)
\* A RecordItem: label, prop (<<>> is null, <<p>> a RecordProp), children
\* (object ids), parent (NoNode is null) and the checkbox state.
NoNode == -1
Item(label, prop, children, parent, checked) ==
    [label |-> label, prop |-> prop, children |-> children,
     parent |-> parent, checked |-> checked]

Put(h, id, rec) == [x \in DOMAIN h \cup {id} |-> IF x = id THEN rec ELSE h[x]]
EmptyHeap == [x \in {} |-> Item("", <<>>, <<>>, NoNode, FALSE)]

\* The identity of the next object created.
FreshId(h) ==
    CHOOSE i \in 0..Cardinality(DOMAIN h) :
        i \notin DOMAIN h /\ \A j \in 0..(i - 1) : j \in DOMAIN h

SeqToSet(s) == {s[i] : i \in 1..Len(s)}

GetCheckboxState(h, id) == h[id].checked

\* updateCheckBox with `every` taken over the children whatever their
\* number: a folder without children comes out checked.
NewCheckStateVacuous(h, id, bps) ==
    LET own == IF h[id].prop # <<>> THEN MatchSome(h[id].prop[1], bps) ELSE FALSE
    IN  IF h[id].prop = <<>>
        THEN \A i \in 1..Len(h[id].children) : GetCheckboxState(h, h[id].children[i])
        ELSE own
\* RecordItem.updateCheckBox: the state it computes.
NewCheckState(h, id, bps) ==
    LET own == IF h[id].prop # <<>> THEN MatchSome(h[id].prop[1], bps) ELSE FALSE
    IN  IF Len(h[id].children) > 0
        THEN \A i \in 1..Len(h[id].children) : GetCheckboxState(h, h[id].children[i])
        ELSE own
UpdateCheckBox(h, id, bps) ==
    [h EXCEPT ![id].checked = NewCheckState(h, id, bps)]
\* What updateCheckBox returns: whether the state changed.
UpdateChanged(h, id, bps) == h[id].checked # NewCheckState(h, id, bps)

\* new RecordItem(label, prop, children): adopts the children, then
\* computes its own checkbox state.
NewItem(h, id, label, prop, children, bps) ==
    LET kids == SeqToSet(children)
        h1 == [x \in DOMAIN h |-> IF x \in kids THEN [h[x] EXCEPT !.parent = id] ELSE h[x]]
        h2 == Put(h1, id, Item(label, prop, children, NoNode, FALSE))
    IN  UpdateCheckBox(h2, id, bps)

(* ------------------------ RecordItem operations ------------------------ *)
\* getChildIDByName: Array.findIndex, 0-based, -1 when no child has the label.
GetChildIDByName(h, id, name) ==
    LET ch == h[id].children
        hit == {i \in 1..Len(ch) : h[ch[i]].label = name}
    IN  IF hit = {} THEN -1
        ELSE (CHOOSE i \in hit : \A j \in hit : i <= j) - 1

\* A findDown that goes down a level without counting it.
RECURSIVE FindDownUncounted(_, _, _)
FindDownUncounted(h, id, path) ==
    IF path = <<>> THEN <<0, id>>
    ELSE LET idx == GetChildIDByName(h, id, path[1])
         IN  IF idx = -1 THEN <<0, id>>
             ELSE FindDownUncounted(h, h[id].children[idx + 1], Tail(path))

\* findDown: <<matched depth, node reached>>.  An exhausted path reads
\* path[0] as undefined, which is no child's label.
RECURSIVE FindDown(_, _, _)
FindDown(h, id, path) ==
    IF path = <<>> THEN <<0, id>>
    ELSE LET idx == GetChildIDByName(h, id, path[1])
         IN  IF idx = -1 THEN <<0, id>>
             ELSE LET ans == FindDown(h, h[id].children[idx + 1], Tail(path))
                  IN  <<ans[1] + 1, ans[2]>>

\* Array.sort with (a, b) => a.label.localeCompare(b.label): a stable sort.
RECURSIVE SortFrom(_, _, _, _)
SortFrom(h, ch, i, acc) ==
    IF i > Len(ch) THEN acc
    ELSE LET r == LabelRank(h[ch[i]].label)
             before == SelectSeq(acc, LAMBDA x : LabelRank(h[x].label) <= r)
             after == SelectSeq(acc, LAMBDA x : LabelRank(h[x].label) > r)
         IN  SortFrom(h, ch, i + 1, before \o <<ch[i]>> \o after)
SortByLabel(h, ch) == SortFrom(h, ch, 1, <<>>)

\* addChildren: push, sort by label, set the back-reference.
AddChildren(h, id, item) ==
    LET pushed == Append(h[id].children, item)
        h1 == [h EXCEPT ![id].children = SortByLabel(h, pushed)]
    IN  [h1 EXCEPT ![item].parent = id]

\* addDown's inner rec(i): the folders path[i..] nested inward around item,
\* the innermost constructed first.
RECURSIVE AddDownRec(_, _, _, _, _)
AddDownRec(h, path, i, item, bps) ==
    IF i > Len(path) THEN [h |-> h, id |-> item]
    ELSE LET r == AddDownRec(h, path, i + 1, item, bps)
             nid == FreshId(r.h)
         IN  [h |-> NewItem(r.h, nid, path[i], <<>>, <<r.id>>, bps), id |-> nid]

\* A variant of addDown that builds the folder chain below a new folder it
\* never attaches to this node.
AddDownDetached(h, id, path, item, bps) ==
    IF path = <<>> THEN AddChildren(h, id, item)
    ELSE AddDownRec(h, path, 1, item, bps).h

AddDown(h, id, path, item, bps) ==
    LET r == AddDownRec(h, path, 1, item, bps)
    IN  AddChildren(r.h, id, r.id)

\* Array.splice(start, 1): a negative start counts from the end.
Splice1(s, start) ==
    LET at == IF start < 0 THEN (IF Len(s) + start < 0 THEN 0 ELSE Len(s) + start)
              ELSE start
    IN  [i \in 1..(Len(s) - (IF at < Len(s) THEN 1 ELSE 0)) |->
            IF i <= at THEN s[i] ELSE s[i + 1]]

\* removeFromParent: the parent drops the first child carrying this label.
RemoveFromParent(h, id) ==
    LET p == h[id].parent
        idx == GetChildIDByName(h, p, h[id].label)
    IN  [h EXCEPT ![p].children = Splice1(h[p].children, idx)]

(* ---------------------- reachability in the heap ----------------------- *)
RECURSIVE Closure(_, _, _)
Closure(h, seen, parents) ==
    LET nxt == seen
               \cup UNION {SeqToSet(h[x].children) : x \in seen}
               \cup (IF parents THEN {h[x].parent : x \in seen} \ {NoNode} ELSE {})
    IN  IF nxt = seen THEN seen ELSE Closure(h, nxt, parents)
\* The nodes below id (id included), following children.
Below(h, id) == Closure(h, {id}, FALSE)
\* A node that is its own descendant: recursion over children never ends.
Cyclic(h, id) ==
    \E x \in Below(h, id) :
        \E i \in 1..Len(h[x].children) : x \in Below(h, h[x].children[i])
\* getFullPath follows parent links up to the node whose parent is the root's
\* null; a parent chain that loops never gets there.
RECURSIVE Ancestors(_, _, _)
Ancestors(h, id, seen) ==
    IF h[id].parent = NoNode \/ h[id].parent \in seen THEN seen
    ELSE Ancestors(h, h[id].parent, seen \cup {h[id].parent})
ParentLoop(h, id) ==
    LET up == Ancestors(h, id, {id})
    IN  \A x \in up : h[x].parent # NoNode
\* The nodes of a subtree, each once, parents before children.
RECURSIVE Preorder(_, _, _)
RECURSIVE PreorderKids(_, _, _, _)
PreorderKids(h, ch, i, acc) ==
    IF i > Len(ch) THEN acc
    ELSE PreorderKids(h, ch, i + 1, Preorder(h, ch[i], acc))
Preorder(h, id, acc) ==
    IF id \in SeqToSet(acc) THEN acc
    ELSE PreorderKids(h, h[id].children, 1, Append(acc, id))

(* -------------------------- object identities -------------------------- *)
\* Objects no longer referenced from the root are dropped, and the live ones
\* are numbered in the order a walk from the root meets them: an object's
\* identity carries no information beyond who refers to it.
RECURSIVE SetToSeq(_)
SetToSeq(S) ==
    IF S = {} THEN <<>>
    ELSE LET m == CHOOSE x \in S : \A y \in S : x <= y
         IN  <<m>> \o SetToSeq(S \ {m})
LiveOrder(h, rootId) ==
    LET walk == Preorder(h, rootId, <<>>)
    IN  walk \o SetToSeq(Closure(h, {rootId}, TRUE) \ SeqToSet(walk))
Renumber(ord, x) ==
    IF x \in SeqToSet(ord) THEN (CHOOSE i \in 1..Len(ord) : ord[i] = x) - 1 ELSE NoNode
Normalize(h, rootId) ==
    LET ord == LiveOrder(h, rootId)
    IN  [i \in 0..(Len(ord) - 1) |->
            LET n == h[ord[i + 1]]
            IN  [n EXCEPT !.children = [c \in 1..Len(n.children) |-> Renumber(ord, n.children[c])],
                          !.parent = Renumber(ord, n.parent)]]

(* ----------------------- serialize / deserialize ----------------------- *)
\* RecordItem.serialize; the caller has ruled out a cyclic structure, on
\* which the recursion overflows the stack.
RECURSIVE Serialize(_, _)
Serialize(h, id) ==
    IF h[id].prop # <<>> THEN PropSerialize(h[id].prop[1])
    ELSE LET ch == h[id].children
         IN  FromEntries([i \in 1..Len(ch) |->
                 Entry(h[ch[i]].label, Serialize(h, ch[i]))])

\* RecordItem.deserialize(name, json): [h, id, ok, err]; ok is FALSE when
\* it throws: "Unknown Type", or the TypeError of Object.keys(null).  The
\* children are built before their parent.
RECURSIVE Deserialize(_, _, _, _)
RECURSIVE DeserializeKids(_, _, _, _, _)
DeserializeKids(h, es, i, ids, bps) ==
    IF i > Len(es) THEN [h |-> h, ids |-> ids, ok |-> TRUE, err |-> ""]
    ELSE LET r == Deserialize(h, es[i].k, es[i].v, bps)
         IN  IF ~r.ok THEN [h |-> h, ids |-> ids, ok |-> FALSE, err |-> r.err]
             ELSE DeserializeKids(r.h, es, i + 1, Append(ids, r.id), bps)
Deserialize(h, name, json, bps) ==
    IF json.jt \in {"z", "u"}
    THEN [h |-> h, id |-> NoNode, ok |-> FALSE, err |-> "TypeError"]
    ELSE IF IsProp(json)
    THEN LET id == FreshId(h)
         IN  [h |-> NewItem(h, id, name, <<PropDeserialize(json)>>, <<>>, bps),
              id |-> id, ok |-> TRUE, err |-> ""]
    ELSE IF InstanceOfObject(json)
    THEN LET r == DeserializeKids(h, Entries(json), 1, <<>>, bps)
             id == FreshId(r.h)
         IN  IF ~r.ok THEN [h |-> h, id |-> NoNode, ok |-> FALSE, err |-> r.err]
             ELSE [h |-> NewItem(r.h, id, name, <<>>, r.ids, bps), id |-> id,
                   ok |-> TRUE, err |-> ""]
    ELSE [h |-> h, id |-> NoNode, ok |-> FALSE, err |-> "Unknown Type"]

(* ------------------------------ forEach -------------------------------- *)
\* A forEach that reports the first child's answer when several children
\* report one.
ForEachResultFirst(self, id, res) ==
    IF self THEN id
    ELSE IF Len(res) >= 1 THEN res[1]
    ELSE NoNode
\* A forEach that reports this node whenever anything below it changed.
ForEachResultSelf(self, id, res) ==
    IF self \/ Len(res) >= 1 THEN id
    ELSE NoNode
\* What forEach returns: self is f(this), res the children's non-null
\* answers.
ForEachResult(self, id, res) ==
    IF self \/ Len(res) > 1 THEN id
    ELSE IF Len(res) = 1 THEN res[1]
    ELSE NoNode

\* RecordItem.forEach(x => x.updateCheckBox()): [h, res, order, ok].  res is
\* the node returned (NoNode for null), order the nodes in the order f was
\* applied to them.  ok is FALSE when the recursion meets a node that is
\* still being visited: it then never ends (stack overflow), and the states
\* set so far stay set.
RECURSIVE ForEach(_, _, _, _)
RECURSIVE ForEachKids(_, _, _, _, _, _, _)
ForEachKids(h, ch, i, stack, bps, res, order) ==
    IF i > Len(ch) THEN [h |-> h, res |-> res, order |-> order, ok |-> TRUE]
    ELSE LET r == ForEach(h, ch[i], stack, bps)
             res2 == IF r.res # NoNode THEN Append(res, r.res) ELSE res
         IN  IF ~r.ok THEN [h |-> r.h, res |-> res2, order |-> order \o r.order, ok |-> FALSE]
             ELSE ForEachKids(r.h, ch, i + 1, stack, bps, res2, order \o r.order)
\* A forEach that applies f to a node before it descends into the children.
ForEachPreOrder(h, id, stack, bps) ==
    IF id \in stack THEN [h |-> h, res |-> NoNode, order |-> <<>>, ok |-> FALSE]
    ELSE LET self == UpdateChanged(h, id, bps)
             h1 == UpdateCheckBox(h, id, bps)
             k == ForEachKids(h1, h[id].children, 1, stack \cup {id}, bps, <<>>, <<id>>)
         IN  [h |-> k.h, res |-> ForEachResult(self, id, k.res),
              order |-> k.order, ok |-> k.ok]
ForEach(h, id, stack, bps) ==
    IF id \in stack THEN [h |-> h, res |-> NoNode, order |-> <<>>, ok |-> FALSE]
    ELSE LET k == ForEachKids(h, h[id].children, 1, stack \cup {id}, bps, <<>>, <<>>)
         IN  IF ~k.ok THEN [h |-> k.h, res |-> NoNode, order |-> k.order, ok |-> FALSE]
             ELSE [h |-> UpdateCheckBox(k.h, id, bps),
                   res |-> ForEachResult(UpdateChanged(k.h, id, bps), id, k.res),
                   order |-> Append(k.order, id), ok |-> TRUE]

(* ------------------------- BugMarkTreeProvider ------------------------- *)
\* What addItemWithPath throws when the node findDown reached is a leaf.
ExpectedFolders == "Expected all folders on the path"

Front(s) == SubSeq(s, 1, Len(s) - 1)
Last(s) == s[Len(s)]

\* The labels from the root down to id, following parent links (the segments
\* getFullPath joins with "/").
RECURSIVE FullPath(_, _)
FullPath(h, id) ==
    IF h[id].parent = NoNode THEN <<>>
    ELSE Append(FullPath(h, h[id].parent), h[id].label)

\* writeToFile(): JSON.stringify(root.serialize()) into bugmark.json, read
\* back by JSON.parse.  On a cyclic structure serialize overflows the stack
\* and nothing is written.
WriteToFile(h, rootId, st) ==
    IF Cyclic(h, rootId) THEN [store |-> st, err |-> "RangeError"]
    ELSE [store |-> StringifyParse(Serialize(h, rootId)), err |-> ""]

\* An addItemWithPath without the test that the node reached is a folder.
AddItemAnywhere(h, rootId, st, path, item, bps) ==
    LET fd == FindDown(h, rootId, path)
        rest == SubSeq(path, fd[1] + 1, Len(path))
        h2 == AddDown(h, fd[2], rest, item, bps)
        w == WriteToFile(h2, rootId, st)
    IN  [h |-> h2, store |-> w.store, err |-> w.err, at |-> fd[2], rest |-> rest]

\* An addItemWithPath that tests for a folder only after it has spliced the
\* item in.
AddItemCheckLast(h, rootId, st, path, item, bps) ==
    LET fd == FindDown(h, rootId, path)
        rest == SubSeq(path, fd[1] + 1, Len(path))
        h2 == AddDown(h, fd[2], rest, item, bps)
        w == WriteToFile(h2, rootId, st)
    IN  IF h[fd[2]].prop # <<>>
        THEN [h |-> h2, store |-> st, err |-> ExpectedFolders,
              at |-> fd[2], rest |-> rest]
        ELSE [h |-> h2, store |-> w.store, err |-> w.err, at |-> fd[2], rest |-> rest]

\* addItemWithPath(path, item): [h, store, err, at, rest]; at is the node
\* findDown reached, rest the segments still to be created below it.
AddItemWithPath(h, rootId, st, path, item, bps) ==
    LET fd == FindDown(h, rootId, path)
        rest == SubSeq(path, fd[1] + 1, Len(path))
    IN  IF h[fd[2]].prop # <<>>
        THEN [h |-> h, store |-> st, err |-> ExpectedFolders,
              at |-> fd[2], rest |-> rest]
        ELSE LET h2 == AddDown(h, fd[2], rest, item, bps)
                 w == WriteToFile(h2, rootId, st)
             IN  [h |-> h2, store |-> w.store, err |-> w.err, at |-> fd[2], rest |-> rest]

\* removeItem(item): [h, store, err].
RemoveItem(h, rootId, st, item) ==
    IF h[item].parent = NoNode
    THEN [h |-> h, store |-> st, err |-> "TypeError"]
    ELSE LET h2 == RemoveFromParent(h, item)
             w == WriteToFile(h2, rootId, st)
         IN  [h |-> h2, store |-> w.store, err |-> w.err]

\* provider.updateCheckBox(): root.forEach(x => x.updateCheckBox()).
ProviderUpdateCheckBox(h, rootId, bps) == ForEach(h, rootId, {}, bps)

(* --------------------------- reconciliation ---------------------------- *)
\* fixLineNumber of the RecordProp that carries a githash: the stored line
\* is carried across the diff between the stored commit and HEAD, then the
\* lines around it are searched for the remembered content.  Line texts are
\* sequences of characters here, so that the edit distance is computed.

\* distance(a, b) of fastest-levenshtein: the Levenshtein edit distance.
Min2(a, b) == IF a < b THEN a ELSE b
RECURSIVE Distance(_, _)
Distance(s, t) ==
    IF s = <<>> THEN Len(t)
    ELSE IF t = <<>> THEN Len(s)
    ELSE IF Head(s) = Head(t) THEN Distance(Tail(s), Tail(t))
    ELSE 1 + Min2(Distance(Tail(s), Tail(t)),
                  Min2(Distance(Tail(s), t), Distance(s, Tail(t))))

\* A line of diff.split("\n"): its first character ("" for the empty line)
\* and, for a hunk header, the four numbers as written; a count that the
\* header leaves out is Absent.
Absent == -1
DiffLine(ch) == [ch |-> ch, hdr |-> <<>>]
HeaderLine(startA, countA, startB, countB) ==
    [ch |-> "@", hdr |-> <<startA, countA, startB, countB>>]
StartsWith(line, ch) == line.ch = ch

\* /^@@ -(\d+),?(\d*) \+(\d+),?(\d*) @@/.exec(line)
HunkHeaderMatch(line) == line.ch = "@" /\ Len(line.hdr) = 4
\* parseInt(m[k] || '1')
ParseCount(c) == IF c = Absent THEN 1 ELSE c

\* A walk that does not count the removed rows it passes.
RECURSIVE HunkWalkPastRemoved(_, _, _, _)
HunkWalkPastRemoved(difflines, j, cnt, lineno) ==
    IF cnt = 0 THEN [ok |-> TRUE, lineno |-> lineno, read |-> j - 1]
    ELSE IF j > Len(difflines) THEN [ok |-> FALSE, lineno |-> lineno, read |-> j]
    ELSE IF StartsWith(difflines[j], "+")
    THEN HunkWalkPastRemoved(difflines, j + 1, cnt, lineno + 1)
    ELSE IF StartsWith(difflines[j], "-")
    THEN HunkWalkPastRemoved(difflines, j + 1, cnt, lineno)
    ELSE HunkWalkPastRemoved(difflines, j + 1, cnt - 1, lineno + 1)

\* The walk through the body of the hunk the line falls in; difflines is
\* indexed from 1 here, and read is the index of the last line the walk
\* read.  Reading past the last line raises a TypeError.
RECURSIVE HunkWalk(_, _, _, _)
HunkWalk(difflines, j, cnt, lineno) ==
    IF cnt = 0 THEN [ok |-> TRUE, lineno |-> lineno, read |-> j - 1]
    ELSE IF j > Len(difflines) THEN [ok |-> FALSE, lineno |-> lineno, read |-> j]
    ELSE IF StartsWith(difflines[j], "+") THEN HunkWalk(difflines, j + 1, cnt, lineno + 1)
    ELSE IF StartsWith(difflines[j], "-") THEN HunkWalk(difflines, j + 1, cnt - 1, lineno)
    ELSE HunkWalk(difflines, j + 1, cnt - 1, lineno + 1)

\* A loop that shifts a line after a hunk the wrong way.
RECURSIVE DiffLoopShiftsBack(_, _, _)
DiffLoopShiftsBack(difflines, i, lineno) ==
    IF i > Len(difflines) THEN [ok |-> TRUE, lineno |-> lineno, from |-> 0, read |-> 0]
    ELSE IF ~HunkHeaderMatch(difflines[i]) THEN DiffLoopShiftsBack(difflines, i + 1, lineno)
    ELSE LET startA == difflines[i].hdr[1]
             countA == ParseCount(difflines[i].hdr[2])
             startB == difflines[i].hdr[3]
             countB == ParseCount(difflines[i].hdr[4])
         IN  IF lineno < startA
             THEN [ok |-> TRUE, lineno |-> lineno, from |-> 0, read |-> 0]
             ELSE IF lineno >= startA /\ lineno < startA + countA
             THEN LET w == HunkWalk(difflines, i + 1, lineno - startA + 1, startB - 1)
                  IN  [ok |-> w.ok, lineno |-> w.lineno, from |-> i, read |-> w.read]
             ELSE DiffLoopShiftsBack(difflines, i + 1, lineno - (countB - countA))

\* The loop over difflines from index i on, lineno being the running value.
RECURSIVE DiffLoop(_, _, _)
DiffLoop(difflines, i, lineno) ==
    IF i > Len(difflines) THEN [ok |-> TRUE, lineno |-> lineno, from |-> 0, read |-> 0]
    ELSE IF ~HunkHeaderMatch(difflines[i]) THEN DiffLoop(difflines, i + 1, lineno)
    ELSE LET startA == difflines[i].hdr[1]
             countA == ParseCount(difflines[i].hdr[2])
             startB == difflines[i].hdr[3]
             countB == ParseCount(difflines[i].hdr[4])
         IN  IF lineno < startA
             THEN [ok |-> TRUE, lineno |-> lineno, from |-> 0, read |-> 0]
             ELSE IF lineno >= startA /\ lineno < startA + countA
             THEN LET w == HunkWalk(difflines, i + 1, lineno - startA + 1, startB - 1)
                  IN  [ok |-> w.ok, lineno |-> w.lineno, from |-> i, read |-> w.read]
             ELSE DiffLoop(difflines, i + 1, lineno + (countB - countA))

\* JavaScript truthiness of this.githash: undefined, null and "" are falsy.
NoHash == ""
Truthy(githash) == githash # NoHash

\* A translation that asks for no repository and no stored commit.
TranslatesAlways(repo, githash) == TRUE
\* if (repo && this.githash)
Translates(repo, githash) == repo /\ Truthy(githash)

\* The offsets examined: [lineno + i, lineno - i] for i = 0 .. radius - 1.
RECURSIVE Pids(_, _, _)
Pids(lineno, i, radius) ==
    IF i >= radius THEN <<>>
    ELSE <<lineno + i, lineno - i>> \o Pids(lineno, i + 1, radius)

\* pid >= 0 && pid < document.lineCount; document.lineAt(pid).text
InDocument(doc, pid) == pid >= 0 /\ pid < Len(doc)
LineAt(doc, pid) == doc[pid + 1]

\* A search that lets a later line of equal score replace the best one.
Improves(score, bestScore) == score <= bestScore
\* if (score < bestScore)
ImprovesStrictly(score, bestScore) == score < bestScore

\* The search loop from the k-th examined offset on.
RECURSIVE SearchLoop(_, _, _, _, _, _)
SearchLoop(doc, content, pids, k, bestLine, bestScore) ==
    IF k > Len(pids) THEN [bestLine |-> bestLine, bestScore |-> bestScore]
    ELSE IF InDocument(doc, pids[k])
              /\ ImprovesStrictly(Distance(content, LineAt(doc, pids[k])), bestScore)
    THEN SearchLoop(doc, content, pids, k + 1, pids[k], Distance(content, LineAt(doc, pids[k])))
    ELSE SearchLoop(doc, content, pids, k + 1, bestLine, bestScore)

\* An acceptance test that is met by the baseline itself.
AcceptedOrEqual(bestScore, content) == bestScore <= Len(content)
\* An acceptance test that turns an exact match down.
AcceptedInexact(bestScore, content) == bestScore < Len(content) /\ bestScore > 0
\* if (bestScore < this.content.length)
Accepted(bestScore, content) == bestScore < Len(content)

\* The fact of a bookmark, as fixLineNumber reads and writes it.
Fact(lineno, content, githash) ==
    [lineno |-> lineno, content |-> content, githash |-> githash]

\* A success branch that leaves this.githash as it was.
RefreshedNever(repo, head, githash) == githash
\* if (repo) this.githash = (await repo.getCommit("HEAD")).hash
Refreshed(repo, head, githash) == IF repo THEN head ELSE githash

\* A failed search that keeps the translated line in this.lineno.
NotFoundMoved(fact, lineno) == Fact(lineno, fact.content, fact.githash)
\* return false: lineno was a local, the fact is as it was.
NotFound(fact, lineno) == fact

\* fixLineNumber(document) when every lookup answers: diff is the text
\* repo.diffBetween gave, head the hash of repo.getCommit("HEAD").  The
\* result: the fact after it, the value returned, the candidate line the
\* search started from, the best line and score, and what was raised
\* (by the walk reading past the diff, or by lineAt of a line that the
\* document does not have, after this.lineno was assigned).
FixLineNumber(fact, doc, radius, repo, difflines, head) ==
    LET tr == IF Translates(repo, fact.githash)
              THEN DiffLoop(difflines, 1, fact.lineno)
              ELSE [ok |-> TRUE, lineno |-> fact.lineno, from |-> 0, read |-> 0]
        s == SearchLoop(doc, fact.content, Pids(tr.lineno, 0, radius), 1,
                        tr.lineno, Len(fact.content))
        found == Accepted(s.bestScore, fact.content)
    IN  IF ~tr.ok
        THEN [fact |-> fact, ret |-> FALSE, err |-> "TypeError", cand |-> tr.lineno,
              bestLine |-> tr.lineno, bestScore |-> Len(fact.content),
              from |-> tr.from, read |-> tr.read]
        ELSE IF found /\ ~InDocument(doc, s.bestLine)
        THEN [fact |-> Fact(s.bestLine, fact.content, fact.githash), ret |-> FALSE,
              err |-> "IllegalLine", cand |-> tr.lineno,
              bestLine |-> s.bestLine, bestScore |-> s.bestScore,
              from |-> tr.from, read |-> tr.read]
        ELSE [fact |-> IF found
                       THEN Fact(s.bestLine, LineAt(doc, s.bestLine),
                                 Refreshed(repo, head, fact.githash))
                       ELSE NotFound(fact, tr.lineno),
              ret |-> found, err |-> "", cand |-> tr.lineno,
              bestLine |-> s.bestLine, bestScore |-> s.bestScore,
              from |-> tr.from, read |-> tr.read]

\* Line texts, documents of up to MaxDocLines lines.
DocTexts == {<<>>, <<"a">>, <<"a", "b">>}
Docs == SeqsUpTo(DocTexts, MaxDocLines)
\* The commit a fact was stored at, and HEAD now.
StoredHash == "h0"
HeadNow == "h1"

\* The rows of a hunk body: context, added, removed.
Rows == {" ", "+", "-"}
CountRows(body, S) == Cardinality({i \in 1..Len(body) : body[i] \in S})
\* Bodies of git's hunks: a change, with a row on either side, the removed
\* rows of a change before its added rows.
Bodies ==
    {b \in SeqsUpTo(Rows, MaxRows) :
        /\ CountRows(b, {"+", "-"}) > 0
        /\ CountRows(b, {" ", "-"}) > 0
        /\ CountRows(b, {" ", "+"}) > 0
        /\ \A i \in 1..(Len(b) - 1) : ~(b[i] = "+" /\ b[i + 1] = "-")}
\* A hunk at startA of the old file, the hunks before it having shifted
\* the new file by shift lines.
Hunk(startA, body, shift) ==
    [startA |-> startA, countA |-> CountRows(body, {" ", "-"}),
     startB |-> startA + shift, countB |-> CountRows(body, {" ", "+"}),
     body |-> body]
NetShift(h) == h.countB - h.countA
OneHunk == {<<Hunk(a, b, 0)>> : a \in 1..MaxStartA, b \in Bodies}
TwoHunks ==
    {<<hs[1], Hunk(hs[1].startA + hs[1].countA + g, b, NetShift(hs[1]))>> :
        hs \in OneHunk, g \in 1..MaxGap, b \in Bodies}
\* git writes a count of 1 by leaving it out.
Written(c) == IF c = 1 THEN Absent ELSE c
HunkText(h) ==
    <<HeaderLine(h.startA, Written(h.countA), h.startB, Written(h.countB))>>
        \o [i \in 1..Len(h.body) |-> DiffLine(h.body[i])]
RECURSIVE HunksText(_)
HunksText(hs) == IF hs = <<>> THEN <<>> ELSE HunkText(Head(hs)) \o HunksText(Tail(hs))
\* "diff --git", "index", "--- a/file", "+++ b/file" come before the hunks;
\* split("\n") ends with the empty string.  No difference: the empty text.
Prelude == <<DiffLine("d"), DiffLine("i"), DiffLine("-"), DiffLine("+")>>
DiffText(hs) ==
    IF hs = <<>> THEN <<DiffLine("")>>
    ELSE Prelude \o HunksText(hs) \o <<DiffLine("")>>

\* What a reconciliation starts from.
FixInput(fact, doc, radius, repo, hunks) ==
    [phase |-> "ready", in |-> fact, fact |-> fact, doc |-> doc, radius |-> radius,
     repo |-> repo, hunks |-> hunks, ret |-> FALSE, err |-> "", cand |-> fact.lineno,
     bestLine |-> fact.lineno, bestScore |-> Len(fact.content), from |-> 0, read |-> 0]
\* A stored line anywhere about one or two hunks, in a document of lines
\* "a" that is long enough to have every line the diff can lead to.
DiffDoc == [i \in 1..(MaxLineno + 2 * MaxRows + 1) |-> <<"a">>]
DiffInputs ==
    {FixInput(Fact(n, <<"a">>, StoredHash), DiffDoc, 1, TRUE, hs) :
        n \in 0..MaxLineno, hs \in OneHunk \cup TwoHunks}
\* Any document, content, stored line and radius, with or without a
\* repository, a stored commit, a difference to HEAD.
FuzzyInputs ==
    {FixInput(Fact(n, c, g), doc, r, repo, hs) :
        n \in 0..MaxDocLines, c \in DocTexts, g \in {NoHash, StoredHash},
        doc \in Docs, r \in 0..MaxRadius, repo \in BOOLEAN,
        hs \in {<<>>, <<Hunk(1, <<"+", " ">>, 0)>>}}
FixInputs == DiffInputs \cup FuzzyInputs
NoFix == FixInput(Fact(0, <<>>, NoHash), <<>>, 0, FALSE, <<>>)

(* --------------------------- edit tracking ----------------------------- *)
\* The RecordProp that carries a deleted flag instead of a githash: it is
\* kept on its line by applyEdit as the document changes under the editor,
\* and checked and re-anchored by checkValidity and the synchronous
\* fixLineNumber.

\* new RecordProp(file, lineno, content, deleted)
FlaggedProp(file, lineno, content, deleted) ==
    [file |-> file, lineno |-> lineno, content |-> content, deleted |-> deleted]

\* A vscode.Position, a vscode.Range and one element of ev.contentChanges;
\* text is change.text.split("\n").
Position(line, character) == [line |-> line, character |-> character]
Range(start, end) == [start |-> start, end |-> end]
Change(range, text) == [range |-> range, text |-> text]
IsBeforeOrEqual(p, q) ==
    p.line < q.line \/ (p.line = q.line /\ p.character <= q.character)
\* Range.contains(other)
Contains(range, other) ==
    IsBeforeOrEqual(range.start, other.start) /\ IsBeforeOrEqual(other.end, range.end)

\* The document after the editor has carried one change through.
ApplyChange(doc, c) ==
    LET first == doc[c.range.start.line + 1]
        last == doc[c.range.end.line + 1]
        pre == SubSeq(first, 1, c.range.start.character)
        post == SubSeq(last, c.range.end.character + 1, Len(last))
        n == Len(c.text)
        lines == IF n = 1 THEN <<pre \o c.text[1] \o post>>
                 ELSE <<pre \o c.text[1]>> \o SubSeq(c.text, 2, n - 1)
                          \o <<c.text[n] \o post>>
    IN  SubSeq(doc, 1, c.range.start.line) \o lines
            \o SubSeq(doc, c.range.end.line + 2, Len(doc))
\* The changes of one event are listed last position first, each in the
\* coordinates of the document before the event.
RECURSIVE ApplyChanges(_, _)
ApplyChanges(doc, changes) ==
    IF changes = <<>> THEN doc
    ELSE ApplyChanges(ApplyChange(doc, Head(changes)), Tail(changes))

\* if (change.range.contains(lineRange))
Swallowed(change, lineRange) == Contains(change.range, lineRange)

\* The loop of applyEdit over ev.contentChanges from the k-th on:
\* [deleted, delta, modified].
RECURSIVE EditLoop(_, _, _, _)
EditLoop(prop, changes, k, acc) ==
    IF k > Len(changes) THEN acc
    ELSE LET change == changes[k]
             lineRange == Range(Position(prop.lineno, 0),
                                Position(prop.lineno, Len(prop.content)))
             editBeforeLine == change.range.start.line < prop.lineno
             prependEnter == /\ change.range.start.line = prop.lineno
                             /\ change.range.end.line = prop.lineno
                             /\ change.range.end.character = 0
             delta == IF editBeforeLine \/ prependEnter
                      THEN acc.delta - (change.range.end.line - change.range.start.line)
                               + (Len(change.text) - 1)
                      ELSE acc.delta
             modifiedLineStart == change.range.end.line <= prop.lineno
             modifiedLineOrLineEnd == change.range.start.line >= prop.lineno
         IN  IF Swallowed(change, lineRange)
             THEN [acc EXCEPT !.deleted = TRUE]
             ELSE EditLoop(prop, changes, k + 1,
                           [deleted |-> acc.deleted, delta |-> delta,
                            modified |-> acc.modified \/ modifiedLineStart
                                             \/ modifiedLineOrLineEnd])

\* applyEdit without `this.lineno += delta`: the fact stays at its line.
ApplyEditInPlace(prop, changes, document) ==
    LET r == EditLoop(prop, changes, 1,
                      [deleted |-> prop.deleted, delta |-> 0, modified |-> FALSE])
        lineno == prop.lineno
    IN  IF r.deleted
        THEN [prop |-> [prop EXCEPT !.deleted = TRUE], ret |-> TRUE, err |-> ""]
        ELSE IF r.modified /\ ~InDocument(document, lineno)
        THEN [prop |-> [prop EXCEPT !.lineno = lineno], ret |-> FALSE, err |-> "IllegalLine"]
        ELSE [prop |-> [prop EXCEPT !.lineno = lineno,
                                    !.content = IF r.modified THEN LineAt(document, lineno)
                                                ELSE prop.content],
              ret |-> r.delta # 0 \/ r.modified, err |-> ""]

\* RecordProp.applyEdit(ev): document is ev.document, after the change.
\* [prop, ret, err]; lineAt of a line the document does not have raises,
\* this.lineno being assigned already.
ApplyEdit(prop, changes, document) ==
    LET r == EditLoop(prop, changes, 1,
                      [deleted |-> prop.deleted, delta |-> 0, modified |-> FALSE])
        lineno == prop.lineno + r.delta
    IN  IF r.deleted
        THEN [prop |-> [prop EXCEPT !.deleted = TRUE], ret |-> TRUE, err |-> ""]
        ELSE IF r.modified /\ ~InDocument(document, lineno)
        THEN [prop |-> [prop EXCEPT !.lineno = lineno], ret |-> FALSE, err |-> "IllegalLine"]
        ELSE [prop |-> [prop EXCEPT !.lineno = lineno,
                                    !.content = IF r.modified THEN LineAt(document, lineno)
                                                ELSE prop.content],
              ret |-> r.delta # 0 \/ r.modified, err |-> ""]

\* RecordProp.checkValidity(document): the prop after it.
CheckValidity(prop, document) ==
    IF prop.deleted THEN prop
    ELSE IF ~InDocument(document, prop.lineno) THEN [prop EXCEPT !.deleted = TRUE]
    ELSE [prop EXCEPT !.deleted = (prop.content # LineAt(document, prop.lineno))]

\* The synchronous fixLineNumber(document): [prop, ret, err].
FixLineNumberSync(prop, document, radius) ==
    LET s == SearchLoop(document, prop.content, Pids(prop.lineno, 0, radius), 1,
                        prop.lineno, Len(prop.content))
    IN  IF ~Accepted(s.bestScore, prop.content)
        THEN [prop |-> prop, ret |-> FALSE, err |-> ""]
        ELSE IF ~InDocument(document, s.bestLine)
        THEN [prop |-> [prop EXCEPT !.lineno = s.bestLine], ret |-> FALSE,
              err |-> "IllegalLine"]
        ELSE [prop |-> FlaggedProp(prop.file, s.bestLine, LineAt(document, s.bestLine), FALSE),
              ret |-> TRUE, err |-> ""]

\* The synchronous RecordItem.getHeadWithCorrection(document):
\* [prop, ret, fixed, err]; fixed tells whether fixLineNumber ran.
GetHeadWithCorrectionSync(prop, document, radius) ==
    LET head == CheckValidity(prop, document)
        r == FixLineNumberSync(head, document, radius)
    IN  IF head.deleted
        THEN [prop |-> r.prop, ret |-> r.ret, fixed |-> TRUE, err |-> r.err]
        ELSE [prop |-> head, ret |-> FALSE, fixed |-> FALSE, err |-> ""]

\* The files open in the editor, and what they hold when the session starts.
Files == {"f1", "f2"}
OpenDocs == [f \in Files |-> IF f = "f1" THEN <<<<"a">>, <<"b">>>> ELSE <<<<"b">>, <<"a", "b">>>>]
\* The positions of a document, the ranges between two of them.
Positions(doc) ==
    UNION {{Position(l, c) : c \in 0..Len(doc[l + 1])} : l \in 0..(Len(doc) - 1)}
Ranges(doc) ==
    {r \in {Range(p, q) : p \in Positions(doc), q \in Positions(doc)} :
        IsBeforeOrEqual(r.start, r.end)}
\* What is typed or pasted over a range: nothing, "b", a line break, "b" and
\* a line break.
Texts == {<<<<>>>>, <<<<"b">>>>, <<<<>>, <<>>>>, <<<<"b">>, <<>>>>}
\* An event's contentChanges: up to MaxChanges changes that replace or
\* insert something, each before the one listed before it.
ChangesUpTo(doc, limit) ==
    {c \in {Change(r, t) : r \in Ranges(doc), t \in Texts} :
        /\ IsBeforeOrEqual(c.range.end, limit) /\ c.range.end # limit
        /\ c.range.start # c.range.end \/ c.text # <<<<>>>>}
RECURSIVE ChangesBefore(_, _, _)
ChangesBefore(doc, limit, n) ==
    IF n = 0 THEN {<<>>}
    ELSE {<<>>} \cup
         UNION {{<<c>> \o rest : rest \in ChangesBefore(doc, c.range.start, n - 1)} :
                   c \in ChangesUpTo(doc, limit)}
Events(doc) == ChangesBefore(doc, Position(Len(doc), 0), MaxChanges) \ {<<>>}
WithinBounds(doc) ==
    Len(doc) <= MaxDocLines /\ \A i \in 1..Len(doc) : Len(doc[i]) <= MaxLineLen

\* The fact of a bookmark set at a line of an open file (fromCursor), the
\* configured search radius, what bugmark.json holds of it.
TrackInput(file, lineno, radius) ==
    [step |-> "fromCursor", docs |-> OpenDocs, radius |-> radius, edits |-> 0,
     prop |-> FlaggedProp(file, lineno, LineAt(OpenDocs[file], lineno), FALSE),
     saved |-> FlaggedProp(file, lineno, LineAt(OpenDocs[file], lineno), FALSE),
     ret |-> FALSE, fixed |-> FALSE, err |-> "",
     was |-> FlaggedProp(file, lineno, LineAt(OpenDocs[file], lineno), FALSE),
     wasDocs |-> OpenDocs, evFile |-> "", ev |-> <<>>]
TrackInputs ==
    {TrackInput(f, n, r) : f \in Files, n \in 0..1, r \in 1..MaxRadius}
NoTrack ==
    [step |-> "none", docs |-> OpenDocs, radius |-> 0, edits |-> 0,
     prop |-> FlaggedProp("", 0, <<>>, FALSE), saved |-> FlaggedProp("", 0, <<>>, FALSE),
     ret |-> FALSE, fixed |-> FALSE, err |-> "",
     was |-> FlaggedProp("", 0, <<>>, FALSE), wasDocs |-> OpenDocs, evFile |-> "",
     ev |-> <<>>]

(* ----------------------- reconciliation in flight ---------------------- *)
\* fixLineNumber is an async function: it runs up to the await of
\* repo.diffBetween, resumes there up to the await of repo.getCommit, and
\* resumes there to its end.  Between two of these stretches other handlers
\* run.

\* The RecordProp of a leaf as fixLineNumber reads it, and back.
FactOf(p) ==
    Fact(p.lineno.jv, p.content.jv, IF p.githash.jt = "s" THEN p.githash.jv ELSE NoHash)
PropOf(fact, file) ==
    RecordProp(file, JNum(fact.lineno), JStr(fact.content),
               IF fact.githash = NoHash THEN JUndef ELSE JStr(fact.githash))
\* gitAPI.getRepository(document.uri): "f1" is in a repository.
RepoOf(file) == DecodePath(file) = "f1"
\* HEAD once the repository has moved on from the commit of a bookmark.
HeadAfter == "h2"

\* A suspended fixLineNumber: where it waits, its local lineno, whether it
\* has assigned this.lineno a line other than the one it found there.
Task(stage, lineno, moved) == [stage |-> stage, lineno |-> lineno, moved |-> moved]

\* From the search loop to the await of getCommit or the return:
\* [fact, task, ret, err], task being <<>> when the function has ended.
SearchAndAssign(fact, lineno, doc, radius, repo) ==
    LET s == SearchLoop(doc, fact.content, Pids(lineno, 0, radius), 1,
                        lineno, Len(fact.content))
    IN  IF ~Accepted(s.bestScore, fact.content)
        THEN [fact |-> NotFound(fact, lineno), task |-> <<>>, ret |-> FALSE, err |-> ""]
        ELSE IF ~InDocument(doc, s.bestLine)
        THEN [fact |-> Fact(s.bestLine, fact.content, fact.githash), task |-> <<>>,
              ret |-> FALSE, err |-> "IllegalLine"]
        ELSE IF repo
        THEN [fact |-> Fact(s.bestLine, LineAt(doc, s.bestLine), fact.githash),
              task |-> <<Task("commit", lineno, s.bestLine # fact.lineno)>>,
              ret |-> FALSE, err |-> ""]
        ELSE [fact |-> Fact(s.bestLine, LineAt(doc, s.bestLine), fact.githash),
              task |-> <<>>, ret |-> TRUE, err |-> ""]
\* From the call to the first await.
FixStart(fact, doc, radius, repo) ==
    IF Translates(repo, fact.githash)
    THEN [fact |-> fact, task |-> <<Task("diff", fact.lineno, FALSE)>>,
          ret |-> FALSE, err |-> ""]
    ELSE SearchAndAssign(fact, fact.lineno, doc, radius, repo)
\* From the answer of diffBetween on.
FixAfterDiff(fact, task, doc, radius, difflines) ==
    LET tr == DiffLoop(difflines, 1, task.lineno)
    IN  IF ~tr.ok
        THEN [fact |-> fact, task |-> <<>>, ret |-> FALSE, err |-> "TypeError"]
        ELSE SearchAndAssign(fact, tr.lineno, doc, radius, TRUE)
\* From the answer of getCommit on: this.githash = commit.hash; return true.
FixAfterCommit(fact, head) ==
    Fact(fact.lineno, fact.content, Refreshed(TRUE, head, fact.githash))

\* The documents and the difference to HEAD a workspace can hold: the line
\* where it was, the line one further down, the line gone.
AsyncDocs == {<<<<"a">>>>, <<<<"a", "b">>, <<"a">>>>, <<<<"b">>>>}
AsyncHunks == {<<>>, <<Hunk(1, <<"+", " ">>, 0)>>}
FlightInput(doc, hunks, radius) ==
    [tracked |-> FALSE, owner |-> NoNode, file |-> JUndef, fact |-> Fact(0, <<>>, NoHash),
     tasks |-> <<>>, doc |-> doc, hunks |-> hunks, radius |-> radius,
     op |-> "none", err |-> "", stale |-> FALSE]
FlightInputs == {FlightInput(d, hs, MaxRadius) : d \in AsyncDocs, hs \in AsyncHunks}
NoFlight == FlightInput(<<>>, <<>>, 0)

\* The objects are renumbered after a command: the fact in flight stays
\* the same object, whether or not a node of the tree still holds it.
Retarget(fl, ord) ==
    IF ~fl.tracked THEN fl
    ELSE [fl EXCEPT !.owner = Renumber(ord, fl.owner), !.op = "command", !.err = "",
                    !.tracked = Renumber(ord, fl.owner) # NoNode \/ fl.tasks # <<>>]

(* ------------------------------- state --------------------------------- *)
VARIABLES
    heap,            \* the RecordItem objects
    root,            \* provider.root
    store,           \* .vscode/bugmark.json, as JSON.parse reads it
    bps,             \* vscode.debug.breakpoints: SourceBreakpoints per location
    changeCheckbox,  \* the guard flag of activate()
    pc,              \* "idle", or "toggle" while onDidChangeCheckboxState runs
    evItems,         \* ev.items still to be handled by the running toggle
    pending,         \* breakpoint-change notifications not yet delivered
    renames,         \* renames carried through so far
    last,            \* what the last handler step did (history, read by no handler)
    fix,             \* the reconciliation of one fact: its world, the fact, the outcome
    track,           \* the edit tracking of one fact: the open documents, the fact
    flight           \* the reconciliations in flight for one fact, and their world

vars == <<heap, root, store, bps, changeCheckbox, pc, evItems, pending, renames, last, fix, track, flight>>

NoLast ==
    [op |-> "init", err |-> "", path |-> <<>>, at |-> NoNode, rest |-> <<>>,
     item |-> NoNode, origin |-> "", inHandler |-> FALSE, ran |-> FALSE,
     res |-> NoNode, order |-> <<>>, changed |-> {},
     troot |-> NoNode, target |-> FALSE, before |-> [l \in Locs |-> 0],
     refresh |-> FALSE]

\* What the running toggle handler was called for stays on record until it
\* returns: the item clicked, its new state, the breakpoints before it.
KeepToggle(l) ==
    [l EXCEPT !.troot = last.troot, !.target = last.target, !.before = last.before]

\* The provider's constructor: loadFromFile() on a workspace without
\* bugmark.json writes {} and reads it back.
InitLoad == Deserialize(EmptyHeap, "", JObj(<<>>), [l \in Locs |-> 0])

InitProvider ==
    /\ heap = Normalize(InitLoad.h, InitLoad.id)
    /\ root = Renumber(LiveOrder(InitLoad.h, InitLoad.id), InitLoad.id)
    /\ store = JObj(<<>>)
    /\ bps = [l \in Locs |-> 0]
    /\ changeCheckbox = FALSE
    /\ pc = "idle"
    /\ evItems = <<>>
    /\ pending = <<>>
    /\ renames = 0
    /\ last = NoLast

Init == InitProvider /\ fix = NoFix /\ track = NoTrack /\ flight = NoFlight
\* A fact about to be reconciled, the record store as constructed.
InitFix == InitProvider /\ fix \in FixInputs /\ track = NoTrack /\ flight = NoFlight
\* A bookmark just set in an open file, the record store as constructed.
InitEdit == InitProvider /\ fix = NoFix /\ track \in TrackInputs /\ flight = NoFlight
\* The record store as constructed, in a workspace whose HEAD has moved on.
InitAsync == InitProvider /\ fix = NoFix /\ track = NoTrack /\ flight \in FlightInputs

\* The items the tree view shows: every node below the root.
Shown == Below(heap, root) \ {root}

(* --------------------- breakpoint-change notification ------------------ *)
\* vscode.debug.onDidChangeBreakpoints: [h, ran, ok, res, order].
OnDidChangeBreakpoints(h, guard, b) ==
    IF ~guard
    THEN LET r == ProviderUpdateCheckBox(h, root, b)
         IN  [h |-> r.h, ran |-> TRUE, ok |-> r.ok, res |-> r.res, order |-> r.order]
    ELSE [h |-> h, ran |-> FALSE, ok |-> TRUE, res |-> NoNode, order |-> <<>>]

ChangedIn(h1, h2) == {x \in DOMAIN h1 \cap DOMAIN h2 : h1[x].checked # h2[x].checked}

\* An updateCheckBox that refreshes the view whatever forEach returned.
RefreshSentAlways(res) == TRUE
\* provider.updateCheckBox: if (changed) this.refresh(changed.parent).
RefreshSent(res) == res # NoNode
NotifyLast(origin, during, h, r) ==
    [NoLast EXCEPT !.op = "notify", !.origin = origin, !.inHandler = during,
                   !.ran = r.ran, !.err = IF r.ok THEN "" ELSE "RangeError",
                   !.res = r.res, !.order = r.order, !.changed = ChangedIn(h, r.h),
                   !.refresh = r.ran /\ r.ok /\ RefreshSent(r.res)]

(* ------------------------------ commands ------------------------------- *)
\* Each handler's effect is computed once, as a value: the state after it,
\* with the live objects renumbered, and the record of what it did.

\* bugmark.command.markline: the typed path, the cursor's location.
MarkLineRun(h, rootId, st, b, segs, loc) ==
    LET item == FreshId(h)
        h1 == NewItem(h, item, Last(segs), <<FromCursor(loc)>>, <<>>, b)
        r == AddItemWithPath(h1, rootId, st, Front(segs), item, b)
        ord == LiveOrder(r.h, rootId)
    IN  [size |-> Len(ord), heap |-> Normalize(r.h, rootId), ord |-> ord,
         root |-> Renumber(ord, rootId), store |-> r.store,
         last |-> [NoLast EXCEPT !.op = "mark", !.err = r.err, !.path = Front(segs),
                                 !.at = Renumber(ord, r.at), !.rest = r.rest,
                                 !.item = Renumber(ord, item)]]

MarkLine(segs, loc) ==
    /\ pc = "idle"
    /\ \E r \in {MarkLineRun(heap, root, store, bps, segs, loc)} :
           /\ r.size <= MaxNodes
           /\ heap' = r.heap
           /\ root' = r.root
           /\ store' = r.store
           /\ last' = r.last
           /\ flight' = Retarget(flight, r.ord)
    /\ UNCHANGED <<bps, changeCheckbox, pc, evItems, pending, renames, fix, track>>

\* bugmark.view.item.remove.
RemoveRun(h, rootId, st, item) ==
    LET r == RemoveItem(h, rootId, st, item)
    IN  [heap |-> Normalize(r.h, rootId), ord |-> LiveOrder(r.h, rootId),
         root |-> Renumber(LiveOrder(r.h, rootId), rootId), store |-> r.store,
         last |-> [NoLast EXCEPT !.op = "remove", !.err = r.err,
                                 !.path = IF ParentLoop(h, item) THEN <<>>
                                           ELSE FullPath(h, item)]]

Remove(item) ==
    /\ pc = "idle"
    /\ item \in Shown
    /\ \E r \in {RemoveRun(heap, root, store, item)} :
           /\ heap' = r.heap
           /\ root' = r.root
           /\ store' = r.store
           /\ last' = r.last
           /\ flight' = Retarget(flight, r.ord)
    /\ UNCHANGED <<bps, changeCheckbox, pc, evItems, pending, renames, fix, track>>

\* bugmark.view.item.rename, from the moment the input box returns segs:
\* item.label = path.pop(); provider.renameItem(path, item).  A removeItem
\* that throws ends the handler before addItemWithPath.
RenameRun(h, rootId, st, b, item, segs) ==
    LET h1 == [h EXCEPT ![item].label = Last(segs)]
        r1 == RemoveItem(h1, rootId, st, item)
        r2 == IF r1.err # "" THEN [h |-> r1.h, store |-> r1.store, err |-> r1.err,
                                    at |-> NoNode, rest |-> <<>>]
              ELSE AddItemWithPath(r1.h, rootId, r1.store, Front(segs), item, b)
        ord == LiveOrder(r2.h, rootId)
    IN  [size |-> Len(ord), heap |-> Normalize(r2.h, rootId), ord |-> ord,
         root |-> Renumber(ord, rootId), store |-> r2.store,
         last |-> [NoLast EXCEPT !.op = "rename", !.err = r2.err, !.path = Front(segs),
                                 !.at = Renumber(ord, r2.at), !.rest = r2.rest,
                                 !.item = Renumber(ord, item)]]

Rename(item, segs) ==
    /\ pc = "idle"
    /\ item \in Shown
    /\ ~ParentLoop(heap, item)
    /\ renames < MaxRenames
    /\ \E r \in {RenameRun(heap, root, store, bps, item, segs)} :
           /\ r.size <= MaxNodes
           /\ heap' = r.heap
           /\ root' = r.root
           /\ store' = r.store
           /\ last' = r.last
           /\ flight' = Retarget(flight, r.ord)
    /\ renames' = renames + 1
    /\ UNCHANGED <<bps, changeCheckbox, pc, evItems, pending, fix, track>>

\* A rename whose getFullPath() never returns: the handler ends there.
RenameLooping(item) ==
    /\ pc = "idle"
    /\ item \in Shown
    /\ ParentLoop(heap, item)
    /\ last' = [NoLast EXCEPT !.op = "rename", !.err = "RangeError"]
    /\ UNCHANGED <<heap, root, store, bps, changeCheckbox, pc, evItems, pending, renames, fix, track, flight>>

\* bugmark.view.title.reload: loadFromFile(); a throwing deserialize leaves
\* the root as it was.
ReloadRun(h, rootId, st, b) ==
    LET r == Deserialize(EmptyHeap, "", st, b)
    IN  [heap |-> IF r.ok THEN Normalize(r.h, r.id) ELSE h,
         ord |-> IF r.ok THEN <<>> ELSE LiveOrder(h, rootId),
         root |-> IF r.ok THEN Renumber(LiveOrder(r.h, r.id), r.id) ELSE rootId,
         last |-> [NoLast EXCEPT !.op = "reload",
                                 !.err = r.err]]

Reload ==
    /\ pc = "idle"
    /\ \E r \in {ReloadRun(heap, root, store, bps)} :
           /\ heap' = r.heap
           /\ root' = r.root
           /\ last' = r.last
           /\ flight' = Retarget(flight, r.ord)
    /\ UNCHANGED <<store, bps, changeCheckbox, pc, evItems, pending, renames, fix, track>>

\* n.findDown(path) on its own, for any node of the tree and any path, the
\* empty one included: the node reached and the segments left over.
FindDownAt(n, path) ==
    /\ pc = "idle"
    /\ n \in DOMAIN heap
    /\ \E fd \in {FindDown(heap, n, path)} :
           last' = [NoLast EXCEPT !.op = "findDown", !.at = n, !.path = path,
                                  !.item = fd[2],
                                  !.rest = SubSeq(path, fd[1] + 1, Len(path))]
    /\ UNCHANGED <<heap, root, store, bps, changeCheckbox, pc, evItems, pending, renames, fix, track, flight>>

\* What a hand-edited bugmark.json can hold under a label: a fact, a fact
\* with one more key, folders, and values that are neither.
LeafBlob == StringifyParse(PropSerialize(FromCursor(<<"f1", 0>>)))
Shapes ==
    {LeafBlob, JObj(Append(LeafBlob.jv, Entry("0", JObj(<<>>)))),
     JObj(<<>>), JObj(<<Entry("file", JNum(1))>>),
     JNum(1), JStr("x"), JNull, JArr(<<>>), JArr(<<LeafBlob>>)}
HandEdits ==
    {JObj(<<Entry("file", s)>>) : s \in Shapes}
        \cup {JObj(<<Entry("content", LeafBlob), Entry("file", s)>>) : s \in Shapes}
        \cup {JNull, JArr(<<>>), JNum(1)}
\* bugmark.json is edited outside the extension; loadFromFile reads what
\* the file holds.
StoreEdited(blob) ==
    /\ pc = "idle"
    /\ store' = blob
    /\ last' = [NoLast EXCEPT !.op = "edited"]
    /\ UNCHANGED <<heap, root, bps, changeCheckbox, pc, evItems, pending, renames, fix, track, flight>>

(* ------------------------- checkbox toggles ---------------------------- *)
\* The location a leaf's breakpoint is added at or looked up by.
LocOf(p) == CHOOSE loc \in Locs : MatchBreakpoint(p, loc)
Tracked(p) == \E loc \in Locs : MatchBreakpoint(p, loc)

\* The breakpoints a toggle of items to checked adds at loc.
Adds(h, items, loc) ==
    Cardinality({i \in 1..Len(items) :
        /\ h[items[i]].prop # <<>>
        /\ MatchBreakpoint(h[items[i]].prop[1], loc)})

\* The user clicks the checkbox of x.  The tree view sets the new state on x
\* and on the items below it, then fires onDidChangeCheckboxState with them;
\* the handler starts by raising the guard.
ToggleBegin(x) ==
    /\ pc = "idle"
    /\ x \in Shown
    /\ \E items \in {Preorder(heap, x, <<>>)}, target \in {~GetCheckboxState(heap, x)} :
           /\ target => \A loc \in Locs : bps[loc] + Adds(heap, items, loc) <= MaxBpPerLoc
           /\ heap' = [n \in DOMAIN heap |->
                          IF n \in SeqToSet(items) THEN [heap[n] EXCEPT !.checked = target]
                          ELSE heap[n]]
           /\ evItems' = items
    /\ last' = [NoLast EXCEPT !.op = "toggle", !.item = x, !.troot = x,
                              !.target = ~GetCheckboxState(heap, x), !.before = bps]
    /\ changeCheckbox' = TRUE
    /\ pc' = "toggle"
    /\ UNCHANGED <<root, store, bps, pending, renames, fix, track, flight>>

\* A toggle handler that does not raise the guard.
GuardUnheld == FALSE
\* The guard the notification handler reads while the toggle handler runs.
GuardHeld == changeCheckbox

\* head.addBreakpoint() / head.removeBreakpoint() of a leaf whose box is on /
\* off: the breakpoint set after it.
ToggleBreakpoints(h, rec, b) ==
    LET p == h[rec].prop[1]
    IN  IF ~Tracked(p) THEN b
        ELSE IF GetCheckboxState(h, rec) THEN [b EXCEPT ![LocOf(p)] = @ + 1]
        ELSE [b EXCEPT ![LocOf(p)] = @ - 1]

\* One item of ev.items.  A leaf adds or removes its breakpoint, and the
\* debugger's notification is delivered at once (sync), inside the running
\* handler, or queued for later.
ToggleStep(sync) ==
    /\ pc = "toggle"
    /\ evItems # <<>>
    /\ heap[Head(evItems)].prop # <<>>
    /\ \E b2 \in {ToggleBreakpoints(heap, Head(evItems), bps)} :
           /\ \A loc \in Locs : b2[loc] >= 0
           /\ bps' = b2
           /\ IF sync
              THEN \E n \in {OnDidChangeBreakpoints(heap, GuardHeld, b2)} :
                       /\ heap' = n.h
                       /\ pending' = pending
                       /\ last' = KeepToggle(NotifyLast("toggle", TRUE, heap, n))
              ELSE /\ Len(pending) < MaxPending
                   /\ heap' = heap
                   /\ pending' = Append(pending, "toggle")
                   /\ last' = KeepToggle([NoLast EXCEPT !.op = "toggle", !.item = Head(evItems)])
    /\ evItems' = Tail(evItems)
    /\ UNCHANGED <<root, store, changeCheckbox, pc, renames, fix, track, flight>>

\* An item of ev.items that is a folder: record.props is null, nothing to do.
ToggleSkip ==
    /\ pc = "toggle"
    /\ evItems # <<>>
    /\ heap[Head(evItems)].prop = <<>>
    /\ evItems' = Tail(evItems)
    /\ last' = KeepToggle([NoLast EXCEPT !.op = "toggle", !.item = Head(evItems)])
    /\ UNCHANGED <<heap, root, store, bps, changeCheckbox, pc, pending, renames, fix, track, flight>>

\* removeBreakpoint() of an unchecked leaf when no breakpoint matches:
\* find() gives undefined and removeBreakpoints([undefined]) is either
\* ignored by the debugger or raises; a raise ends the handler before it
\* lowers the guard.
ToggleRemoveMissing(raises) ==
    /\ pc = "toggle"
    /\ evItems # <<>>
    /\ heap[Head(evItems)].prop # <<>>
    /\ ~GetCheckboxState(heap, Head(evItems))
    /\ Tracked(heap[Head(evItems)].prop[1])
    /\ bps[LocOf(heap[Head(evItems)].prop[1])] = 0
    /\ last' = KeepToggle([NoLast EXCEPT !.op = "toggle", !.item = Head(evItems),
                                         !.err = IF raises THEN "TypeError" ELSE ""])
    /\ evItems' = IF raises THEN <<>> ELSE Tail(evItems)
    /\ pc' = IF raises THEN "idle" ELSE pc
    /\ UNCHANGED <<heap, root, store, bps, changeCheckbox, pending, renames, fix, track, flight>>

\* The handler's last statement: changeCheckbox = false.
ToggleEnd ==
    /\ pc = "toggle"
    /\ evItems = <<>>
    /\ changeCheckbox' = FALSE
    /\ pc' = "idle"
    /\ last' = KeepToggle([NoLast EXCEPT !.op = "toggled"])
    /\ UNCHANGED <<heap, root, store, bps, evItems, pending, renames, fix, track, flight>>

(* ----------------------- breakpoint-set changes ------------------------ *)
\* A queued notification of a toggle's own change reaches the handler
\* after the toggle handler has returned.
Deliver ==
    /\ pc = "idle"
    /\ pending # <<>>
    /\ \E n \in {OnDidChangeBreakpoints(heap, changeCheckbox, bps)} :
           /\ heap' = n.h
           /\ last' = NotifyLast(Head(pending), FALSE, heap, n)
    /\ pending' = Tail(pending)
    /\ UNCHANGED <<root, store, bps, changeCheckbox, pc, evItems, renames, fix, track, flight>>

\* The user adds (delta = 1) or removes (delta = -1) a breakpoint in the
\* debugger; the extension host learns of it with the notification.
DebuggerChange(loc, delta) ==
    /\ pc = "idle"
    /\ bps[loc] + delta \in 0..MaxBpPerLoc
    /\ \E b2 \in {[bps EXCEPT ![loc] = @ + delta]} :
           /\ bps' = b2
           /\ \E n \in {OnDidChangeBreakpoints(heap, changeCheckbox, b2)} :
                  /\ heap' = n.h
                  /\ last' = NotifyLast("debugger", FALSE, heap, n)
    /\ UNCHANGED <<root, store, changeCheckbox, pc, evItems, pending, renames, fix, track, flight>>

(* --------------------------- reconciliation ---------------------------- *)
providerVars == <<heap, root, store, bps, changeCheckbox, pc, evItems, pending, renames, last>>

\* getHeadWithCorrection(document): checkValidity answers false, so
\* fixLineNumber runs; every lookup answers.
GetHeadWithCorrection ==
    /\ fix.phase = "ready"
    /\ \E r \in {FixLineNumber(fix.fact, fix.doc, fix.radius, fix.repo,
                                DiffText(fix.hunks), HeadNow)} :
           fix' = [fix EXCEPT !.phase = IF r.err = "" THEN "done" ELSE "raised",
                              !.fact = r.fact, !.ret = r.ret, !.err = r.err,
                              !.cand = r.cand, !.bestLine = r.bestLine,
                              !.bestScore = r.bestScore, !.from = r.from,
                              !.read = r.read]
    /\ UNCHANGED <<providerVars, track, flight>>

\* openTextDocument() of the fact's file rejects: there is no document to
\* reconcile against, and the rejection is the caller's.
OpenTextDocumentFails ==
    /\ fix.phase = "ready"
    /\ fix' = [fix EXCEPT !.phase = "failed", !.err = "CannotOpen"]
    /\ UNCHANGED <<providerVars, track, flight>>

\* repo.diffBetween(this.githash, "HEAD", path) rejects (the stored commit
\* is unknown to the repository): the await throws out of fixLineNumber.
DiffBetweenFails ==
    /\ fix.phase = "ready"
    /\ Translates(fix.repo, fix.fact.githash)
    /\ fix' = [fix EXCEPT !.phase = "failed", !.err = "GitError"]
    /\ UNCHANGED <<providerVars, track, flight>>

\* repo.getCommit("HEAD") rejects after the line was found: lineno and
\* content are already assigned, githash is not.
GetCommitFails ==
    /\ fix.phase = "ready"
    /\ fix.repo
    /\ \E r \in {FixLineNumber(fix.fact, fix.doc, fix.radius, fix.repo,
                                DiffText(fix.hunks), HeadNow)} :
           /\ r.ret
           /\ fix' = [fix EXCEPT !.phase = "failed", !.err = "GitError",
                                 !.fact = Fact(r.fact.lineno, r.fact.content, fix.fact.githash),
                                 !.cand = r.cand, !.bestLine = r.bestLine,
                                 !.bestScore = r.bestScore, !.from = r.from,
                                 !.read = r.read]
    /\ UNCHANGED <<providerVars, track, flight>>

(* ---------------------------- edit tracking ---------------------------- *)
\* What a step starts from stays on record: the fact and the documents
\* before it, the event delivered (history, read by no handler).
Before(t, file, changes) ==
    [t EXCEPT !.was = t.prop, !.wasDocs = t.docs, !.evFile = file, !.ev = changes]
\* vscode.workspace.onDidChangeTextDocument: the editor has changed the
\* document of file; provider.applyEdit(ev) hands the event to the head of
\* every leaf and writes bugmark.json when one of them reports a change.
\* An event without content changes is passed over.
OnDidChangeTextDocument(file, changes) ==
    /\ track.step # "none"
    /\ track.edits < MaxEdits
    /\ \E doc \in {ApplyChanges(track.docs[file], changes)} :
           /\ WithinBounds(doc)
           /\ \E r \in {ApplyEdit(track.prop, changes, doc)} :
                  track' = IF changes = <<>>
                           THEN [Before(track, file, changes) EXCEPT
                                    !.step = "ignored", !.edits = @ + 1,
                                    !.ret = FALSE, !.fixed = FALSE, !.err = ""]
                           ELSE [Before(track, file, changes) EXCEPT
                                    !.step = "applyEdit", !.docs[file] = doc,
                                    !.edits = @ + 1, !.prop = r.prop,
                                    !.saved = IF r.err = "" /\ r.ret THEN r.prop ELSE @,
                                    !.ret = r.ret, !.fixed = FALSE, !.err = r.err]
    /\ UNCHANGED <<providerVars, fix, flight>>

\* The files as another session finds them.
ClosedDocs == SeqsUpTo({<<"a">>, <<"b">>}, 2) \ {<<>>}
\* The session ends, a file changes on disk, the next session loads the
\* fact from bugmark.json.
ChangedWhileClosed(file, doc) ==
    /\ track.step # "none"
    /\ track.edits < MaxEdits
    /\ track' = [Before(track, "", <<>>) EXCEPT
                     !.step = "closed", !.docs[file] = doc, !.edits = @ + 1,
                     !.prop = track.saved, !.ret = FALSE, !.fixed = FALSE, !.err = ""]
    /\ UNCHANGED <<providerVars, fix, flight>>

\* head.checkValidity(document), document being the one of the fact's file.
CallCheckValidity ==
    /\ track.step # "none"
    /\ track' = [Before(track, "", <<>>) EXCEPT
                     !.step = "checkValidity",
                     !.prop = CheckValidity(track.prop, track.docs[track.prop.file]),
                     !.ret = FALSE, !.fixed = FALSE, !.err = ""]
    /\ UNCHANGED <<providerVars, fix, flight>>

\* item.getHeadWithCorrection(document), document being the one of the
\* fact's file.
CallGetHeadWithCorrection ==
    /\ track.step # "none"
    /\ \E r \in {GetHeadWithCorrectionSync(track.prop, track.docs[track.prop.file],
                                            track.radius)} :
           track' = [Before(track, "", <<>>) EXCEPT
                        !.step = "getHeadWithCorrection", !.prop = r.prop,
                        !.ret = r.ret, !.fixed = r.fixed, !.err = r.err]
    /\ UNCHANGED <<providerVars, fix, flight>>

(* ----------------------- reconciliation in flight ---------------------- *)
Drop(s, k) == SubSeq(s, 1, k - 1) \o SubSeq(s, k + 1, Len(s))
\* The leaf that holds the fact in flight, if one still does, sees what
\* fixLineNumber assigns.
Assigned(h, fl, fact) ==
    IF fl.owner = NoNode THEN h
    ELSE [h EXCEPT ![fl.owner].prop = <<PropOf(fact, fl.file)>>]

\* An event that requires the reconciliation of a leaf (navigation to it, a
\* change of the breakpoint set): its handler awaits
\* item.getHeadWithCorrection(document).
Reconcile(item) ==
    /\ pc = "idle"
    /\ item \in Shown
    /\ heap[item].prop # <<>>
    /\ Len(flight.tasks) < MaxInFlight
    /\ flight.tasks # <<>> => item = flight.owner
    /\ \E r \in {FixStart(FactOf(heap[item].prop[1]), flight.doc, flight.radius,
                           RepoOf(heap[item].prop[1].file))} :
           /\ flight' = [flight EXCEPT !.tracked = TRUE, !.owner = item,
                                       !.file = heap[item].prop[1].file, !.fact = r.fact,
                                       !.tasks = @ \o r.task, !.op = "start", !.err = r.err,
                                       !.stale = \E k \in 1..Len(flight.tasks) :
                                                     /\ flight.tasks[k].stage = "commit"
                                                     /\ flight.tasks[k].moved]
           /\ heap' = [heap EXCEPT ![item].prop = <<PropOf(r.fact, heap[item].prop[1].file)>>]
    /\ UNCHANGED <<root, store, bps, changeCheckbox, pc, evItems, pending, renames, last, fix, track>>

\* repo.diffBetween answers the k-th suspended fixLineNumber; the diff of
\* HEAD against itself is empty.
ResumeDiff(k) ==
    /\ k \in 1..Len(flight.tasks)
    /\ flight.tasks[k].stage = "diff"
    /\ \E r \in {FixAfterDiff(flight.fact, flight.tasks[k], flight.doc, flight.radius,
                               DiffText(IF flight.fact.githash = HeadAfter THEN <<>>
                                        ELSE flight.hunks))} :
           /\ flight' = [flight EXCEPT !.fact = r.fact, !.op = "resumeDiff", !.err = r.err,
                                       !.tasks = IF r.task = <<>> THEN Drop(@, k)
                                                 ELSE [@ EXCEPT ![k] = r.task[1]],
                                       !.stale = FALSE]
           /\ heap' = Assigned(heap, flight, r.fact)
    /\ UNCHANGED <<root, store, bps, changeCheckbox, pc, evItems, pending, renames, last, fix, track>>

\* repo.getCommit("HEAD") answers the k-th suspended fixLineNumber.
ResumeCommit(k) ==
    /\ k \in 1..Len(flight.tasks)
    /\ flight.tasks[k].stage = "commit"
    /\ \E fact \in {FixAfterCommit(flight.fact, HeadAfter)} :
           /\ flight' = [flight EXCEPT !.fact = fact, !.op = "resumeCommit", !.err = "",
                                       !.tasks = Drop(@, k), !.stale = FALSE]
           /\ heap' = Assigned(heap, flight, fact)
    /\ UNCHANGED <<root, store, bps, changeCheckbox, pc, evItems, pending, renames, last, fix, track>>

\* The lookup the k-th suspended fixLineNumber awaits rejects: the await
\* throws out of fixLineNumber and of getHeadWithCorrection.
LookupFails(k) ==
    /\ k \in 1..Len(flight.tasks)
    /\ flight' = [flight EXCEPT !.op = "lookupFails", !.err = "GitError",
                                !.tasks = Drop(@, k), !.stale = FALSE]
    /\ UNCHANGED <<providerVars, fix, track>>

(* --------------------------- specification ----------------------------- *)
\* bugmark.command.markline with a name drawn from paths, at any location.
Mark(paths) == \E segs \in paths, loc \in Locs : MarkLine(segs, loc)

\* The commands that add to, remove from and reload the record store, the
\* item names drawn from all three labels.
NextSerial ==
    \/ Mark(AllPaths)
    \/ \E item \in DOMAIN heap : Remove(item)
    \/ Reload

\* The structural commands of the tree view, rename included.
NextTree ==
    \/ Mark(TypedPaths)
    \/ \E item \in DOMAIN heap : Remove(item)
    \/ \E item \in DOMAIN heap, segs \in TypedPaths : Rename(item, segs)
    \/ \E item \in DOMAIN heap : RenameLooping(item)
    \/ Reload

\* Checkbox toggles and breakpoint-set changes over the trees that marking
\* and removing build.
NextSync ==
    \/ Mark(FolderPaths)
    \/ \E item \in DOMAIN heap : Remove(item)
    \/ Reload
    \/ \E x \in DOMAIN heap : ToggleBegin(x)
    \/ \E sync \in BOOLEAN : ToggleStep(sync)
    \/ ToggleSkip
    \/ \E raises \in BOOLEAN : ToggleRemoveMissing(raises)
    \/ ToggleEnd
    \/ Deliver
    \/ \E loc \in Locs, delta \in {-1, 1} : DebuggerChange(loc, delta)

\* findDown from any node of the trees that marking builds.
NextFind ==
    \/ Mark(TypedPaths)
    \/ \E n \in DOMAIN heap, path \in TypedPaths \cup {<<>>} : FindDownAt(n, path)

\* Reloading a bugmark.json that was edited by hand.
NextLoad ==
    \/ Mark(FolderPaths)
    \/ \E blob \in HandEdits : StoreEdited(blob)
    \/ Reload

\* The reconciliation of a fact, with the lookups that can fail.
NextFix ==
    \/ GetHeadWithCorrection
    \/ OpenTextDocumentFails
    \/ DiffBetweenFails
    \/ GetCommitFails

\* A bookmark tracked through the changes of the open documents.
NextEdit ==
    \/ \E file \in Files : \E changes \in Events(track.docs[file]) \cup {<<>>} :
           OnDidChangeTextDocument(file, changes)
    \/ \E file \in Files, doc \in ClosedDocs : ChangedWhileClosed(file, doc)
    \/ CallCheckValidity
    \/ CallGetHeadWithCorrection

\* Reconciliations suspended at their lookups while bookmarks are set and
\* removed.
NextAsync ==
    \/ Mark(FolderPaths)
    \/ \E item \in DOMAIN heap : Remove(item)
    \/ \E item \in DOMAIN heap : Reconcile(item)
    \/ \E k \in 1..MaxInFlight : ResumeDiff(k)
    \/ \E k \in 1..MaxInFlight : ResumeCommit(k)
    \/ \E k \in 1..MaxInFlight : LookupFails(k)

Next == NextSerial \/ NextTree \/ NextFind \/ NextSync \/ NextLoad \/ NextFix \/ NextEdit \/ NextAsync

Spec == Init /\ [][Next]_vars
SpecSerial == Init /\ [][NextSerial]_vars
SpecTree == Init /\ [][NextTree]_vars
SpecSync == Init /\ [][NextSync]_vars
SpecFind == Init /\ [][NextFind]_vars
SpecLoad == Init /\ [][NextLoad]_vars
SpecFix == InitFix /\ [][NextFix]_vars
SpecEdit == InitEdit /\ [][NextEdit]_vars
SpecAsync == InitAsync /\ [][NextAsync]_vars

(* ----------------------------- properties ------------------------------ *)
\* Two record trees with the same labels, the same leaf/interior shape, the
\* same child sets and the same LocationFact field values.
RECURSIVE SameTree(_, _, _, _)
SameTree(h1, a, h2, b) ==
    /\ h1[a].label = h2[b].label
    /\ h1[a].prop = h2[b].prop
    /\ Len(h1[a].children) = Len(h2[b].children)
    /\ \A i \in 1..Len(h1[a].children) : \E j \in 1..Len(h2[b].children) :
           SameTree(h1, h1[a].children[i], h2, h2[b].children[j])
    /\ \A j \in 1..Len(h2[b].children) : \E i \in 1..Len(h1[a].children) :
           SameTree(h1, h1[a].children[i], h2, h2[b].children[j])

\* No node below rootId lists two children with one label.
UniqueSiblings(h, rootId) ==
    \A x \in Below(h, rootId) : \A i, j \in 1..Len(h[x].children) :
        i # j => h[h[x].children[i]].label # h[h[x].children[j]].label

\* The last command carried an addDown(last.rest, last.item) through, at
\* the node last.at, with at least one folder to synthesize.
AddedDown ==
    /\ last.op \in {"mark", "rename"}
    /\ last.err \in {"", "RangeError"}
    /\ last.at # NoNode
    /\ last.rest # <<>>

\* The last step was a recompute pass that ran to its end.
PassDone == last.op = "notify" /\ last.ran /\ last.err = ""

Leaves(h, S) == {x \in S : h[x].prop # <<>>}
Pos(seq, x) == CHOOSE i \in 1..Len(seq) : seq[i] = x

\* x is listed by a node that lists another child as well.
HasSibling(h, x) ==
    \E q \in DOMAIN h : x \in SeqToSet(h[q].children) /\ Len(h[q].children) > 1

\* r is the lowest common ancestor of the nodes S: all of S lies in its
\* subtree and in no proper descendant's.
IsLCA(h, r, S) ==
    /\ r # NoNode
    /\ S \subseteq Below(h, r)
    /\ \A d \in Below(h, r) \ {r} : ~(S \subseteq Below(h, d))

\* C1: reloading the store written from a tree T gives a tree structurally
\* equal to T (same labels, same leaf/interior shape, same child sets, same
\* LocationFact values).  Stated for trees whose sibling labels are
\* distinct, so that a failure is the round trip's own.
C1_RoundTrip ==
    [][(last'.op = "reload" /\ last'.err = "" /\ UniqueSiblings(heap, root))
          => SameTree(heap', root', heap, root)]_vars

\* C2, as stated: after addDown(P, item) at a node n with P non-empty and
\* P[0] no child label of n, n.findDown(P) returns depth len(P) and the
\* inserted item.
C2_FindDownReturnsItem ==
    AddedDown => FindDown(heap, last.at, last.rest) = <<Len(last.rest), last.item>>

\* C2, amended: n.findDown(P) returns depth len(P) and the innermost
\* synthesized folder, whose only child is the item; the item itself is
\* what findDown returns for P followed by the item's label, at depth
\* len(P) + 1.
C2_FindDownReturnsFolder ==
    AddedDown =>
        LET fd == FindDown(heap, last.at, last.rest)
        IN  /\ fd[1] = Len(last.rest)
            /\ heap[fd[2]].prop = <<>>
            /\ heap[fd[2]].children = <<last.item>>
            /\ FindDown(heap, last.at, Append(last.rest, heap[last.item].label))
                   = <<Len(last.rest) + 1, last.item>>

\* A bookmark was marked two synthesized folders deep.
C2_Witness == AddedDown /\ last.op = "mark" /\ Len(last.rest) = 2

\* C3: after a node at path p is removed, root.findDown(p) matches fewer
\* than len(p) segments.
C3_RemovedPathNotFound ==
    (last.op = "remove" /\ last.err = "" /\ last.path # <<>>)
        => FindDown(heap, root, last.path)[1] < Len(last.path)

\* C4: a mark-line insert whose longest matched prefix ends at a leaf fails
\* with the error "Expected all folders on the path" and leaves the tree
\* and the store as they were.
C4_LeafPrefixRejected ==
    [][(last'.op = "mark" /\ heap[FindDown(heap, root, last'.path)[2]].prop # <<>>)
          => (last'.err = ExpectedFolders /\ heap' = heap /\ root' = root /\ store' = store)]_vars

\* A mark-line was rejected at a leaf of a tree that holds a bookmark.
C4_Witness ==
    /\ last.op = "mark"
    /\ last.err = ExpectedFolders
    /\ heap[last.at].prop # <<>>
    /\ store # JObj(<<>>)

\* C5: in every tree reached by mark-line, remove and rename, no two
\* children of one node carry the same label.
C5_SiblingLabelsDistinct == UniqueSiblings(heap, root)

\* C6: under reload, mark-line, remove and rename no node holds both a
\* LocationFact and children.
C6_LeafOrFolder ==
    \A x \in DOMAIN heap : heap[x].prop # <<>> => heap[x].children = <<>>

\* A rename went through in a tree that shows a leaf and a folder with
\* children.
C6_Witness ==
    /\ last.op = "rename"
    /\ last.err = ""
    /\ \E x \in Shown : heap[x].prop # <<>>
    /\ \E x \in Shown : heap[x].prop = <<>> /\ heap[x].children # <<>>

\* C7: after a recompute pass that ran to its end, every leaf is checked
\* iff a breakpoint is at its (file, lineno), every interior node with
\* children is checked iff all its children are, and the pass applied
\* updateCheckBox to every child before its parent.
C7_PassConsistent ==
    PassDone =>
        \A x \in Below(heap, root) :
            /\ (heap[x].prop # <<>> /\ heap[x].children = <<>>)
                   => (heap[x].checked <=> MatchSome(heap[x].prop[1], bps))
            /\ (heap[x].prop = <<>> /\ heap[x].children # <<>>)
                   => (heap[x].checked <=>
                          \A i \in 1..Len(heap[x].children) : heap[heap[x].children[i]].checked)
            /\ \A i \in 1..Len(heap[x].children) :
                   Pos(last.order, heap[x].children[i]) < Pos(last.order, x)

\* A pass ended with a checked folder that holds two children.
C7_Witness ==
    /\ PassDone
    /\ \E x \in Shown : Len(heap[x].children) = 2 /\ heap[x].checked

\* C8: the node the recompute pass returns is the lowest common ancestor
\* of the nodes whose checked state changed in the pass.
C8_ReturnsLCA ==
    (PassDone /\ last.changed # {}) => IsLCA(heap, last.res, last.changed)

\* A pass changed a leaf and its folder, and returned the folder, which is
\* not the root.
C8_Witness ==
    /\ PassDone
    /\ last.res \in Shown
    /\ heap[last.res].prop = <<>>
    /\ Cardinality(last.changed) = 2

\* C9, as stated: when exactly one leaf, a leaf that has siblings, changed
\* in the pass, that leaf is the node reported; when several leaves
\* changed, the node reported is the lowest common ancestor of the changed
\* leaves.
C9_ChangeRootOfLeaves ==
    (PassDone /\ UniqueSiblings(heap, root)) =>
        LET cl == Leaves(heap, last.changed)
        IN  /\ (Cardinality(cl) = 1 /\ \A l \in cl : HasSibling(heap, l)) => last.res \in cl
            /\ Cardinality(cl) > 1 => IsLCA(heap, last.res, cl)

\* C9, amended: a single changed leaf is the node reported when no interior
\* node changed state in the pass; whenever a leaf changed, the node
\* reported is the lowest common ancestor of all changed nodes, interior
\* ones included, so it lies at or above that of the changed leaves.
C9_ChangeRootOfAllChanged ==
    PassDone =>
        LET cl == Leaves(heap, last.changed)
        IN  /\ (Cardinality(cl) = 1 /\ last.changed = cl) => last.res \in cl
            /\ cl # {} => /\ IsLCA(heap, last.res, last.changed)
                          /\ cl \subseteq Below(heap, last.res)

\* A pass changed one leaf, which has a sibling, and nothing else, and
\* returned that leaf.
C9_Witness ==
    /\ PassDone
    /\ Cardinality(last.changed) = 1
    /\ Leaves(heap, last.changed) = last.changed
    /\ \A l \in last.changed : HasSibling(heap, l)
    /\ last.res \in last.changed

LeafToggled ==
    last.op = "toggled" /\ heap[last.troot].prop # <<>> /\ UniqueSiblings(heap, root)
FolderToggled ==
    last.op = "toggled" /\ heap[last.troot].prop = <<>> /\ UniqueSiblings(heap, root)

\* C11: after a user toggle of a leaf completes, the breakpoint set has an
\* entry at the leaf's (file, lineno) if the leaf's new state is checked and
\* none if it is unchecked, and the breakpoints at other locations are as
\* they were before the toggle.
C11_LeafToggleSetsBreakpoint ==
    LeafToggled =>
        LET loc == LocOf(heap[last.troot].prop[1])
        IN  /\ heap[last.troot].checked = last.target
            /\ last.target => bps[loc] > 0
            /\ ~last.target => bps[loc] = 0
            /\ \A l \in Locs \ {loc} : bps[l] = last.before[l]

\* C12: after a toggle of a folder completes, every leaf below it has the
\* target state as its stored checked state, and that state equals the
\* presence of a breakpoint at the leaf's (file, lineno).
C12_FolderToggleSetsLeaves ==
    FolderToggled =>
        \A l \in Leaves(heap, Below(heap, last.troot)) :
            /\ heap[l].checked = last.target
            /\ heap[l].checked = (bps[LocOf(heap[l].prop[1])] > 0)

(* ------------------- properties of the reconciliation ------------------ *)
\* fixLineNumber has returned; it carried the line across a diff.
FixDone == fix.phase = "done"
Translated == FixDone /\ Translates(fix.repo, fix.in.githash)

\* The sum of countB - countA over the first k hunks.
RECURSIVE ShiftOf(_, _)
ShiftOf(hs, k) == IF k = 0 THEN 0 ELSE ShiftOf(hs, k - 1) + NetShift(hs[k])

\* In the old file, line n lies after hunk k (k = 0: no hunk before it) and
\* before hunk k + 1 (k = Len(hs): no hunk after it).
Between(hs, n, k) ==
    /\ k > 0 => n >= hs[k].startA + hs[k].countA
    /\ k < Len(hs) => n < hs[k + 1].startA
\* In the old file, line n lies inside hunk k.
Inside(hs, n, k) == n >= hs[k].startA /\ n < hs[k].startA + hs[k].countA

\* The row of the hunk body that is the m-th row of the old file's side.
RowOf(body, m) ==
    CHOOSE j \in 1..Len(body) :
        body[j] # "+" /\ CountRows(SubSeq(body, 1, j), {" ", "-"}) = m
\* The walk of the body of h for line n: the rows up to the one of n are
\* passed, the added and unchanged ones among them move the position on
\* from the row before startB.
WalkedTo(h, n) ==
    h.startB - 1 + CountRows(SubSeq(h.body, 1, RowOf(h.body, n - h.startA + 1)), {" ", "+"})

\* C13: with a single hunk, a line that precedes startA translates to
\* itself and a line at or after startA + countA translates to the line
\* plus countB - countA.
C13_SingleHunk ==
    (Translated /\ Len(fix.hunks) = 1) =>
        LET h == fix.hunks[1]
            n == fix.in.lineno
        IN  /\ n < h.startA => fix.cand = n
            /\ n >= h.startA + h.countA => fix.cand = n + (h.countB - h.countA)

\* A line after the only hunk, which added or removed lines, was carried.
C13_Witness ==
    /\ Translated
    /\ Len(fix.hunks) = 1
    /\ fix.in.lineno >= fix.hunks[1].startA + fix.hunks[1].countA
    /\ NetShift(fix.hunks[1]) # 0
    /\ fix.cand = fix.in.lineno + NetShift(fix.hunks[1])

\* C14: with several hunks, a line that lies in the old file after hunks
\* 1..k and before hunk k + 1 translates to the line plus the sum of
\* countB - countA over hunks 1..k; the later hunks do not affect it.
C14_ShiftOfEarlierHunks ==
    (Translated /\ Len(fix.hunks) > 1) =>
        \A k \in 0..Len(fix.hunks) :
            Between(fix.hunks, fix.in.lineno, k) =>
                fix.cand = fix.in.lineno + ShiftOf(fix.hunks, k)

\* C15: a line inside a hunk translates to the position the walk of that
\* hunk's body reaches, anchored at startB; later hunks are not applied.
C15_WalkInsideHunk ==
    Translated =>
        \A k \in 1..Len(fix.hunks) :
            Inside(fix.hunks, fix.in.lineno, k) =>
                fix.cand = WalkedTo(fix.hunks[k], fix.in.lineno)

\* C16: without a stored revision, without a repository, or with a diff
\* text that has no hunk header, the search starts from the stored line.
C16_PassThrough ==
    (FixDone /\ (fix.in.githash = NoHash \/ ~fix.repo \/ fix.hunks = <<>>)) =>
        fix.cand = fix.in.lineno

\* A fact without a stored revision was reconciled in a repository whose
\* diff would have moved the line, and the line was found.
C16_Witness ==
    /\ FixDone
    /\ fix.in.githash = NoHash
    /\ fix.repo
    /\ fix.hunks # <<>>
    /\ fix.ret
    /\ fix.cand = fix.in.lineno

\* C17: when a lookup of the stored revision or of the document fails, the
\* reconciliation raises no error and leaves lineno, content and revision
\* of the fact as they were.
C17_LookupFailureIsSilent ==
    fix.phase = "failed" => (fix.err = "" /\ fix.fact = fix.in)

\* The positions of the examined offsets that are lines of the document,
\* and the distance of the line examined at position k.
Examined == {k \in 1..(2 * fix.radius) : InDocument(fix.doc, Pids(fix.cand, 0, fix.radius)[k])}
ScoreAt(k) == Distance(fix.in.content, LineAt(fix.doc, Pids(fix.cand, 0, fix.radius)[k]))

\* C18: a found line has the least edit distance of all examined lines of
\* the document, and is the first of them in examination order to have it.
C18_FirstMinimum ==
    (FixDone /\ fix.ret) =>
        \E k \in Examined :
            /\ Pids(fix.cand, 0, fix.radius)[k] = fix.fact.lineno
            /\ \A j \in Examined : ScoreAt(k) <= ScoreAt(j)
            /\ \A j \in Examined : j < k => ScoreAt(j) > ScoreAt(k)

\* Two different examined lines tie for the least distance, and the line
\* found is not the one the search started from.
C18_Witness ==
    /\ FixDone
    /\ fix.ret
    /\ fix.fact.lineno # fix.cand
    /\ \E j, k \in Examined :
           /\ Pids(fix.cand, 0, fix.radius)[j] # Pids(fix.cand, 0, fix.radius)[k]
           /\ ScoreAt(j) = ScoreAt(k)
           /\ \A m \in Examined : ScoreAt(k) <= ScoreAt(m)

\* C19: found is reported exactly when the least distance over the
\* examined lines is strictly less than the length of the remembered
\* content; a least distance equal to that length is not-found.
C19_FoundIffStrictlyLess ==
    FixDone => (fix.ret <=> \E k \in Examined : ScoreAt(k) < Len(fix.in.content))

\* The best examined line is as far from the content as the content is
\* long, and not-found was reported.
C19_Witness ==
    /\ FixDone
    /\ ~fix.ret
    /\ \E k \in Examined : ScoreAt(k) = Len(fix.in.content)
    /\ fix.in.content # <<>>

\* The fact's content is the text of the line the search starts from.
ExactAtCandidate ==
    /\ FixDone
    /\ InDocument(fix.doc, fix.cand)
    /\ LineAt(fix.doc, fix.cand) = fix.in.content

\* C20, as stated: for every content and every radius, an exact match at
\* the candidate line is found, at the candidate, with distance 0.
C20_ExactMatchAlwaysFound ==
    ExactAtCandidate => (fix.ret /\ fix.fact.lineno = fix.cand /\ fix.bestScore = 0)

\* C20, amended: for non-empty content and a radius of at least 1, an exact
\* match at the candidate line is found, at the candidate, with distance 0;
\* with empty content or radius 0 not-found is reported and the fact is
\* left as it was.
C20_ExactMatchFound ==
    ExactAtCandidate =>
        IF fix.in.content # <<>> /\ fix.radius >= 1
        THEN fix.ret /\ fix.fact.lineno = fix.cand /\ fix.bestScore = 0
        ELSE ~fix.ret /\ fix.fact = fix.in

\* An exact match of non-empty content was found at the candidate, in a
\* document with another line of the same text.
C20_Witness ==
    /\ ExactAtCandidate
    /\ fix.in.content # <<>>
    /\ fix.radius >= 1
    /\ fix.ret
    /\ fix.fact.lineno = fix.cand
    /\ \E p \in 0..(Len(fix.doc) - 1) : p # fix.cand /\ LineAt(fix.doc, p) = fix.in.content

\* C21: when the search finds no improving line it reports not-found and
\* the fact's lineno, content and revision are as before the call, even
\* when the diff moved the line the search started from.
C21_NotFoundLeavesFact ==
    (FixDone /\ ~fix.ret) => fix.fact = fix.in

\* Not-found was reported after the diff had moved the candidate.
C21_Witness ==
    /\ FixDone
    /\ ~fix.ret
    /\ fix.cand # fix.in.lineno
    /\ fix.fact = fix.in

\* C22: when found is reported, lineno is the matched line, content is the
\* document's text at that line and, with a repository, the revision is the
\* current head.
C22_FoundReanchors ==
    (FixDone /\ fix.ret) =>
        /\ fix.fact.lineno = fix.bestLine
        /\ InDocument(fix.doc, fix.fact.lineno)
        /\ fix.fact.content = LineAt(fix.doc, fix.fact.lineno)
        /\ fix.repo => fix.fact.githash = HeadNow
        /\ ~fix.repo => fix.fact.githash = fix.in.githash

\* A fact stored at an older commit was found on another line, with other
\* text, and its revision was moved to head.
C22_Witness ==
    /\ FixDone
    /\ fix.ret
    /\ fix.repo
    /\ fix.in.githash = StoredHash
    /\ fix.fact.githash = HeadNow
    /\ fix.fact.lineno # fix.in.lineno
    /\ fix.fact.content # fix.in.content

\* The last step was a reconciliation step or an edit tracking step of the
\* fact, and it left the fact not flagged deleted.
TrackedStep ==
    /\ track.step \in {"applyEdit", "checkValidity", "getHeadWithCorrection"}
    /\ ~track.prop.deleted
\* The fact's content is the text its document has at the fact's line.
Anchored(prop, docs) ==
    /\ InDocument(docs[prop.file], prop.lineno)
    /\ prop.content = LineAt(docs[prop.file], prop.lineno)

\* C23: after every reconciliation step (checkValidity, fixLineNumber,
\* getHeadWithCorrection) and every edit tracking step (applyEdit) that
\* leaves a fact not flagged deleted, the fact's content equals the current
\* text of its document at the fact's lineno.
C23_ContentIsLineText == TrackedStep => Anchored(track.prop, track.docs)

\* The keys of a blob are those of a LocationFact: file, lineno, content and,
\* optionally, the revision.
KeysMatch(j) ==
    /\ j.jt = "o"
    /\ \A key \in {"file", "lineno", "content"} : HasKey(j, key)
    /\ \A i \in 1..Len(j.jv) : j.jv[i].k \in {"file", "lineno", "content", "githash"}
\* A blob the format allows: a fact, or a keyed association of such blobs.
RECURSIVE WellFormed(_)
WellFormed(j) ==
    /\ j.jt = "o"
    /\ KeysMatch(j) \/ \A i \in 1..Len(j.jv) : WellFormed(j.jv[i].v)
\* The node id is what a well-formed blob j describes: a leaf for a fact, an
\* interior node with one child per entry otherwise.
RECURSIVE Mirrors(_, _, _)
Mirrors(h, id, j) ==
    IF KeysMatch(j) THEN h[id].prop # <<>> /\ h[id].children = <<>>
    ELSE /\ h[id].prop = <<>>
         /\ Len(h[id].children) = Len(j.jv)
         /\ \A i \in 1..Len(j.jv) :
                /\ h[h[id].children[i]].label = j.jv[i].k
                /\ Mirrors(h, h[id].children[i], j.jv[i].v)

\* C24: deserialize makes a blob a leaf iff its keys match the LocationFact
\* field set, an interior node iff it is any other keyed association, and
\* fails for any other shape (a scalar, a null, a list); no malformed entry
\* is dropped or turned into a node, and a failed load leaves the current
\* root as it was.
C24_MalformedBlobIsRejected ==
    [][last'.op = "reload" =>
          /\ (last'.err = "") <=> WellFormed(store)
          /\ last'.err = "" => Mirrors(heap', root', store)
          /\ last'.err # "" => (heap' = heap /\ root' = root)]_vars

Detached == flight.tracked /\ flight.owner = NoNode
\* C26: a reconciliation in flight for the fact of a node that has been
\* removed completes without raising, and leaves the tree reachable from the
\* root and the persisted store as they were after the removal.
C26_RemovedWhileInFlight ==
    [][(Detached /\ flight'.op \in {"resumeDiff", "resumeCommit", "lookupFails"})
          => (flight'.err = "" /\ heap' = heap /\ root' = root /\ store' = store)]_vars

\* Following the segments of path from n, a child of that label at each
\* step, leads to m.
RECURSIVE Follows(_, _, _, _)
Follows(h, n, path, m) ==
    IF path = <<>> THEN m = n
    ELSE \E i \in 1..Len(h[n].children) :
             /\ h[h[n].children[i]].label = path[1]
             /\ Follows(h, h[n].children[i], Tail(path), m)
\* The depth the last findDown returned.
FoundDepth == Len(last.path) - Len(last.rest)

\* C27: for every node n and every path P (the empty one and those that go
\* on past a leaf included), n.findDown(P) does not fail and returns (d, m)
\* with 0 <= d <= len(P), m the node reached from n along P[0..d-1], and,
\* when d < len(P), m without a child labelled P[d].
C27_FindDownPartialMatch ==
    last.op = "findDown" =>
        /\ last.err = ""
        /\ FoundDepth \in 0..Len(last.path)
        /\ last.item \in DOMAIN heap
        /\ Follows(heap, last.at, SubSeq(last.path, 1, FoundDepth), last.item)
        /\ FoundDepth < Len(last.path) =>
               \A i \in 1..Len(heap[last.item].children) :
                   heap[heap[last.item].children[i]].label # last.path[FoundDepth + 1]
\* A path that goes on past a leaf: findDown stops at the leaf.
C27_Witness ==
    /\ last.op = "findDown"
    /\ FoundDepth > 0
    /\ FoundDepth < Len(last.path)
    /\ heap[last.item].prop # <<>>
    /\ last.at # root

\* Line o of the old file (counted from 1, as the hunk headers count) lies
\* inside hunk k, and the diff leaves it as it is: no hunk holds it, or its
\* row in the hunk that holds it is a context row.
Holds(hs, o, k) == o >= hs[k].startA /\ o < hs[k].startA + hs[k].countA
Unchanged(hs, o) ==
    \A k \in 1..Len(hs) :
        Holds(hs, o, k) => hs[k].body[RowOf(hs[k].body, o - hs[k].startA + 1)] = " "
\* Where line o of the old file is in the new file (counted from 1): inside
\* hunk k, startB plus the rows of the new file's side above its row;
\* outside, the line plus the net shift of the hunks above it.
NewLine(hs, o) ==
    IF \E k \in 1..Len(hs) : Holds(hs, o, k)
    THEN LET k == CHOOSE k \in 1..Len(hs) : Holds(hs, o, k)
             row == RowOf(hs[k].body, o - hs[k].startA + 1)
         IN  hs[k].startB + CountRows(SubSeq(hs[k].body, 1, row - 1), {" ", "+"})
    ELSE o + ShiftOf(hs, Cardinality({k \in 1..Len(hs) : hs[k].startA < o}))

\* C28: for a well-formed unified diff and a 0-indexed line L of the old
\* version that the diff leaves unchanged (outside all hunks, or a context
\* row of one), diff translation of L gives the 0-indexed position of that
\* line in the new version.
C28_UnchangedLineTranslates ==
    (Translated /\ fix.hunks # <<>> /\ Unchanged(fix.hunks, fix.in.lineno + 1)) =>
        fix.cand = NewLine(fix.hunks, fix.in.lineno + 1) - 1

\* The node findDown reaches by matching the whole of path, if any.
FoundAt(h, rootId, path) ==
    LET fd == FindDown(h, rootId, path)
    IN  IF fd[1] = Len(path) THEN fd[2] ELSE NoNode
\* The segments of d's path below those of its ancestor n.
Under(h, n, d) ==
    SubSeq(FullPath(h, d), Len(FullPath(h, n)) + 1, Len(FullPath(h, d)))
\* In the tree after the step, path leads to a node that carries what x
\* carried before it: the same fact, and children as x had.
Carries(path, x) ==
    LET y == FoundAt(heap', root', path)
    IN  /\ y # NoNode
        /\ heap'[y].prop = heap[x].prop
        /\ Len(heap'[y].children) = Len(heap[x].children)
Keeps(path, x) ==
    LET y == FoundAt(heap', root', path)
    IN  y # NoNode /\ heap'[y].prop = heap[x].prop
\* The rename of item to segs that the claim is about: the tree holds every
\* label once per folder, segs is not a path of the tree and does not lead
\* through item's old path, and the handler returns.
FreshRename(item, segs) ==
    /\ Rename(item, segs)
    /\ last'.err = ""
    /\ UniqueSiblings(heap, root)
    /\ FoundAt(heap, root, segs) = NoNode
    /\ FoundAt(heap, root, Front(segs)) \notin Below(heap, item)
    /\ FindDown(heap, root, Front(segs))[2] \notin Below(heap, item)

\* C29: after a rename of node n to a new path Q/l that is not already
\* present, n is found at Q/l with its fact and subtree intact, nothing is
\* found at n's old path, and every other node of the tree is still at its
\* former path with the same content: no sibling of n is removed.
C29_RenameMovesOnlyTheNode ==
    [][\A item \in DOMAIN heap, segs \in TypedPaths :
           FreshRename(item, segs) =>
               /\ \A d \in Below(heap, item) : Carries(segs \o Under(heap, item, d), d)
               /\ FoundAt(heap', root', FullPath(heap, item)) = NoNode
               /\ \A x \in Shown \ Below(heap, item) : Keeps(FullPath(heap, x), x)]_vars

\* What the persisted blob j holds under path.
RECURSIVE StoredAt(_, _)
StoredAt(j, path) ==
    IF path = <<>> THEN j
    ELSE IF j.jt = "o" /\ HasKey(j, path[1]) THEN StoredAt(Get(j, path[1]), Tail(path))
    ELSE JUndef
\* The rename of item to segs whose folder path ends at a leaf other than
\* item, in a tree that holds every label once per folder.
BlockedRename(item, segs) ==
    /\ Rename(item, segs)
    /\ UniqueSiblings(heap, root)
    /\ heap[FindDown(heap, root, Front(segs))[2]].prop # <<>>
    /\ FindDown(heap, root, Front(segs))[2] \notin Below(heap, item)

\* C30: a rename whose new path cannot be inserted (its matched prefix ends
\* at a leaf) fails with an error and is atomic: the renamed node keeps its
\* original label and is still found at its original path, and the persisted
\* store still contains it.
C30_FailedRenameIsAtomic ==
    [][\A item \in DOMAIN heap, segs \in TypedPaths :
           BlockedRename(item, segs) =>
               /\ last'.err = ExpectedFolders
               /\ Carries(FullPath(heap, item), item)
               /\ StoredAt(store', FullPath(heap, item)) =
                      StringifyParse(Serialize(heap, item))]_vars

\* How many nodes of S, nodes of heap h, sit at the path x has in heap h0
\* and carry x's fact.
Alike(h, S, h0, x) ==
    Cardinality({y \in S : FullPath(h, y) = FullPath(h0, x) /\ h[y].prop = h0[x].prop})
\* The nodes shown after the step.
ShownAfter == Below(heap', root') \ {root'}

\* C31: removeFromParent on a node n removes exactly n and n's descendants:
\* every node that is neither n nor below n is still reachable from the
\* root at its former path, and n's parent loses exactly one child, n.
C31_RemovesExactlyTheNode ==
    [][\A item \in DOMAIN heap :
           (Remove(item) /\ last'.err = "") =>
               /\ \A x \in Shown \ Below(heap, item) :
                      Alike(heap', ShownAfter, heap, x)
                          = Alike(heap, Shown \ Below(heap, item), heap, x)
               /\ \A d \in Below(heap, item) :
                      Alike(heap', ShownAfter, heap, d)
                          = Alike(heap, Shown \ Below(heap, item), heap, d)
               /\ Cardinality(ShownAfter) = Cardinality(Shown \ Below(heap, item))]_vars

\* The checked states of the nodes shown are the derived ones: a leaf's is
\* the presence of a breakpoint on its line, that of a folder with children
\* the conjunction of its children's.
Derived(h, rootId, b) ==
    \A x \in Below(h, rootId) \ {rootId} :
        /\ (h[x].prop # <<>> /\ h[x].children = <<>>)
               => (h[x].checked <=> MatchSome(h[x].prop[1], b))
        /\ (h[x].prop = <<>> /\ h[x].children # <<>>)
               => (h[x].checked <=> \A i \in 1..Len(h[x].children) : h[h[x].children[i]].checked)

\* C32: the derived checked state stays consistent under structural
\* mutation: after an insert-at-path, a remove or a rename that leaves the
\* breakpoint set alone, every interior node with children is checked iff
\* all of its children are, and every leaf iff a breakpoint is on its line.
C32_StructureKeepsCheckedState ==
    [][(/\ last'.op \in {"mark", "remove", "rename"}
        /\ last'.err = ""
        /\ bps' = bps
        /\ UniqueSiblings(heap, root)
        /\ UniqueSiblings(heap', root')
        /\ Derived(heap, root, bps))
           => Derived(heap', root', bps')]_vars

\* C33: the reentrancy guard is held only while a toggle handler executes:
\* whenever no toggle handler is running the guard is false, also after a
\* handler that failed part-way, so that a later change of the breakpoint
\* set made in the debugger runs a recompute.
C33_GuardOnlyInHandler ==
    /\ pc = "idle" => ~changeCheckbox
    /\ (last.op = "notify" /\ last.origin = "debugger") => last.ran

\* C34: a recompute pass in which no node's checked state changes reports
\* no change-root: forEach returns null, no refresh is sent to the view, and
\* the pass completes without raising.
C34_QuietPassReportsNothing ==
    (last.op = "notify" /\ last.ran /\ last.changed = {}) =>
        (last.res = NoNode /\ ~last.refresh /\ last.err = "")

\* A pass over a tree that holds a folder and a bookmark changed no state.
C34_Witness ==
    /\ last.op = "notify" /\ last.ran /\ last.changed = {}
    /\ \E x \in Shown : heap[x].prop = <<>> /\ heap[x].children # <<>>

\* The index, in the lines of the diff text, of the header of hunk k.
RECURSIVE HeaderAt(_, _)
HeaderAt(hs, k) ==
    IF k = 1 THEN Len(Prelude) + 1
    ELSE HeaderAt(hs, k - 1) + Len(hs[k - 1].body) + 1
\* getHeadWithCorrection has returned or raised after the diff was walked.
Walked == fix.phase \in {"done", "raised"} /\ Translates(fix.repo, fix.in.githash)

\* C35: for a well-formed hunk and an input line inside
\* [startA, startA + countA), the walk of the hunk's body terminates, and
\* it reads no row beyond the end of that hunk's body.
C35_WalkStaysInBody ==
    Walked =>
        /\ fix.err # "TypeError"
        /\ (fix.hunks # <<>> /\ Inside(fix.hunks, fix.in.lineno, 1))
               => fix.from = HeaderAt(fix.hunks, 1)
        /\ fix.from # 0 =>
               \E k \in 1..Len(fix.hunks) :
                   /\ fix.from = HeaderAt(fix.hunks, k)
                   /\ fix.read > fix.from
                   /\ fix.read <= fix.from + Len(fix.hunks[k].body)

\* The walk read the body of the first of two hunks to its last row.
C35_Witness ==
    /\ Walked
    /\ Len(fix.hunks) = 2
    /\ fix.from = HeaderAt(fix.hunks, 1)
    /\ Len(fix.hunks[1].body) = MaxRows
    /\ fix.read = fix.from + MaxRows

\* C36: edit tracking touches only the facts of the edited document: a
\* document-change event for a document other than the fact's file leaves
\* the fact's lineno, content and deleted flag as they were and does not
\* cause the store to be rewritten.
C36_OtherDocumentLeavesFact ==
    [][\A file \in Files : \A changes \in Events(track.docs[file]) :
           (OnDidChangeTextDocument(file, changes) /\ file # track.prop.file) =>
               /\ track'.prop = track.prop
               /\ ~track'.ret
               /\ track'.saved = track.saved
               /\ track'.err = ""]_vars

\* Over the changes of an event: the line breaks of the inserted text less
\* the lines the replaced range spans.
RECURSIVE LinesAdded(_)
LinesAdded(changes) ==
    IF changes = <<>> THEN 0
    ELSE (Len(changes[1].text) - 1)
             - (changes[1].range.end.line - changes[1].range.start.line)
             + LinesAdded(Tail(changes))
\* The whole of the bookmarked line, as a range.
LineRange(prop) == Range(Position(prop.lineno, 0), Position(prop.lineno, Len(prop.content)))
\* The last step was applyEdit for an event of the fact's own file, the
\* fact pointing at a line of that file when the event came.
OwnEdit ==
    /\ track.step = "applyEdit"
    /\ track.evFile = track.was.file
    /\ Anchored(track.was, track.wasDocs)
\* Every change of the event ends on a line before the bookmarked one.
EndsAbove == \A i \in 1..Len(track.ev) : track.ev[i].range.end.line < track.was.lineno
\* A change of the event contains the whole bookmarked line.
SwallowsLine == \E i \in 1..Len(track.ev) : Contains(track.ev[i].range, LineRange(track.was))
\* The fact has moved with its line and is valid.
Shifted ==
    /\ track.prop.lineno = track.was.lineno + LinesAdded(track.ev)
    /\ track.prop.content = track.was.content
    /\ Anchored(track.prop, track.docs)
    /\ ~track.prop.deleted
\* The fact is flagged deleted where it was.
FlaggedInPlace ==
    /\ track.prop.deleted
    /\ track.prop.lineno = track.was.lineno
    /\ track.prop.content = track.was.content

LifeStep == track.step \in {"applyEdit", "checkValidity", "getHeadWithCorrection"}
\* The step has flagged the fact; the step has cleared the flag.
Raised == ~track.was.deleted /\ track.prop.deleted
Cleared == track.was.deleted /\ ~track.prop.deleted
\* An edit of the fact's document has removed the whole bookmarked line.
LineRemoved ==
    /\ track.step = "applyEdit"
    /\ track.evFile = track.was.file
    /\ SwallowsLine
\* checkValidity, alone or at the start of getHeadWithCorrection, has
\* found another text at the fact's line, or no such line.
FoundInvalid ==
    /\ track.step \in {"checkValidity", "getHeadWithCorrection"}
    /\ ~Anchored(track.was, track.wasDocs)
\* The fuzzy search ran and reported found; it ran and gave up.
SearchFound == track.step = "getHeadWithCorrection" /\ track.fixed /\ track.ret
SearchGaveUp == track.step = "getHeadWithCorrection" /\ track.fixed /\ ~track.ret

\* C38: a fact becomes flagged deleted only when an edit removes its whole
\* line or when checkValidity finds that the text at its lineno differs
\* from its content (or that the line is out of range); once flagged it
\* becomes non-deleted again only through a fuzzy search that reports
\* found; when the search gives up, the fact stays flagged deleted with
\* its last known lineno still stored.
C38_DeletedFlagLifecycle ==
    LifeStep => /\ Raised => (LineRemoved \/ FoundInvalid)
                /\ Cleared => SearchFound
                /\ SearchGaveUp => (track.prop.deleted /\ track.prop.lineno = track.was.lineno)

\* An interior node without children: a folder whose bookmarks are gone.
EmptyFolder(h, x) == h[x].prop = <<>> /\ h[x].children = <<>>
\* The nodes that have x below them.
Holders(h, rootId, x) == {y \in Below(h, rootId) \ {x} : x \in Below(h, y)}

\* C39: after a recompute an interior node with zero children is unchecked
\* (not vacuously checked), and so is every ancestor of an empty interior
\* node.
C39_EmptyFolderUnchecked ==
    PassDone =>
        \A x \in Below(heap, root) :
            EmptyFolder(heap, x) =>
                /\ ~heap[x].checked
                /\ \A y \in Holders(heap, root, x) : ~heap[y].checked
\* A pass has run over a tree in which an empty folder has a sibling whose
\* bookmark is checked.
C39_Witness ==
    /\ PassDone
    /\ \E x \in Shown :
           /\ EmptyFolder(heap, x)
           /\ \E y \in Holders(heap, root, x) :
                  \E z \in Shown : /\ z \in SeqToSet(heap[y].children)
                                   /\ z # x
                                   /\ heap[z].checked

====
